---- MODULE Spec2Model ----
(***************************************************************************)
(* Session & confirmation orchestration core of the WhatsApp appointment   *)
(* confirmation service: inbound reply handling (IncomingMessageHandler),  *)
(* the delivery queue (QueueService) and the periodic batch processor      *)
(* (QueueProcessor).                                                       *)
(*                                                                         *)
(* Every asynchronous operation is a process slot with a program counter.  *)
(* One step of a slot runs from one `await` on the database or the broker  *)
(* to the next one, so the interleavings of the single-threaded event loop *)
(* are the interleavings of these steps.                                   *)
(***************************************************************************)
EXTENDS Integers, Sequences, FiniteSets, Bags, TLC

\* ------------------------------------------------------------------ bounds
SeqCalls == 3       \* operation invocations in a one-at-a-time run
RaceCalls == 2      \* handleMessage invocations in an interleaved run
QueueCalls == 3     \* queue operation invocations in an interleaved run
DrainCalls == 2     \* enqueues and cancellations before the queue is left to drain
MaxSkips == 1       \* skip notices that are counted
MaxTextLen == 3     \* length of the reply texts of the classifier runs
SessionCalls == 2   \* connectTenant and disconnectSession invocations in a run
LifecycleCalls == 2 \* disconnectSession and getSessionStatus invocations in a run
FaultCalls == 2     \* handleMessage invocations in a run with failing collaborators
MaxSubscribers == 3 \* subscriber numbers of the phone formatter runs
WebhookCalls == 2   \* webhook deliveries in a one-at-a-time run
ReconnectCalls == 2 \* connectTenant and handleMessage invocations in an interleaved run

\* --------------------------------------------------------------- constants
DefaultLimit == 10  \* processQueue(limit = 10)

VARIABLES
    sts,          \* of_schedules.sts, by appointment id
    whatsConf,    \* of_schedules.whatsConf, by appointment id
    queue,        \* wa_queue rows in insertion order; the row id is the index
    messages,     \* wa_messages rows, a bag (insert only)
    sessions,     \* whatsapp_sessions row by tenant
    brokerSends,  \* bag of the sendTextMessage calls issued, with outcome
    isProcessing, \* QueueProcessor.isProcessing
    skipped,      \* number of "already in progress, skipping" notices
    pc,           \* position of each process slot
    frame,        \* local variables of each process slot
    result,       \* value returned by the last finished call of each slot
    calls,        \* operation invocations so far
    cin,          \* classifier runs: the reply text
    cout,         \* classifier runs: the classification
    sessionRows,  \* number of whatsapp_sessions rows named tenant_<id>, by tenant
    sessionData,  \* qrCode and sessionToken of the tenant's whatsapp_sessions row
    instances,    \* tenants whose instance tenant_<id> exists at the broker
    connection,   \* value returned by the last finished connectTenant call
    received      \* received_messages rows in insertion order

connVars == <<sessionRows, sessionData, instances, connection>>

vars == <<sts, whatsConf, queue, messages, sessions, brokerSends, isProcessing,
          skipped, pc, frame, result, calls, cin, received, cout, connVars>>

\* ------------------------------------------------------------ text helpers
Digits == {"0", "1", "2", "3", "4", "5", "6", "7", "8", "9"}
Whitespace == {" ", "\t", "\n"}

RECURSIVE TrimStart(_)
TrimStart(s) ==
    IF s # <<>> /\ Head(s) \in Whitespace THEN TrimStart(Tail(s)) ELSE s

RECURSIVE TrimEnd(_)
TrimEnd(s) ==
    IF s # <<>> /\ s[Len(s)] \in Whitespace
    THEN TrimEnd(SubSeq(s, 1, Len(s) - 1)) ELSE s

\* String.prototype.trim
Trim(s) == TrimEnd(TrimStart(s))

\* /^[0-9]+$/
AllDigits(s) == s # <<>> /\ \A i \in 1..Len(s) : s[i] \in Digits

\* replace(/\D/g, "")
RECURSIVE StripNonDigits(_)
StripNonDigits(s) ==
    IF s = <<>> THEN <<>>
    ELSE IF Head(s) \in Digits THEN <<Head(s)>> \o StripNonDigits(Tail(s))
    ELSE StripNonDigits(Tail(s))

\* replace(/^0+/, "")
RECURSIVE StripLeadingZeros(_)
StripLeadingZeros(s) ==
    IF s # <<>> /\ Head(s) = "0" THEN StripLeadingZeros(Tail(s)) ELSE s

StartsWith55(s) == Len(s) >= 2 /\ s[1] = "5" /\ s[2] = "5"

\* slice(-8)
Slice8(s) == IF Len(s) <= 8 THEN s ELSE SubSeq(s, Len(s) - 7, Len(s))

\* LIKE '%x%'
Contains(s, x) ==
    \E i \in 1..(Len(s) + 1) :
        i + Len(x) - 1 <= Len(s) /\ SubSeq(s, i, i + Len(x) - 1) = x

\* REPLACE(REPLACE(REPLACE(REPLACE(tel, '-', ''), ' ', ''), '(', ''), ')', '')
RECURSIVE SqlStrip(_)
SqlStrip(s) ==
    IF s = <<>> THEN <<>>
    ELSE IF Head(s) \in {"-", " ", "(", ")"} THEN SqlStrip(Tail(s))
    ELSE <<Head(s)>> \o SqlStrip(Tail(s))

formatPhoneForWhatsApp(phone) ==
    IF phone = <<>> THEN <<>>
    ELSE LET cleaned == StripLeadingZeros(StripNonDigits(phone)) IN
         IF Len(cleaned) = 13 /\ StartsWith55(cleaned) THEN cleaned
         ELSE IF Len(cleaned) = 11 THEN <<"5", "5">> \o cleaned
         ELSE IF Len(cleaned) = 12 /\ StartsWith55(cleaned)
              THEN <<"5", "5">> \o SubSeq(cleaned, 3, 4) \o <<"9">>
                   \o SubSeq(cleaned, 5, 12)
         ELSE cleaned

\* ------------------------------------------------------- reply classifier
Class(action, templateType, statusToSet, valid) ==
    [action |-> action, templateType |-> templateType,
     statusToSet |-> statusToSet, valid |-> valid]

ClassifyReply_AnyDigit(messageText) ==
    LET cleanText == Trim(messageText) IN
    IF messageText = <<>> THEN Class("ignore", "", 0, FALSE)
    ELSE IF cleanText = <<"1">> THEN Class("confirm", "confirmar", 6, TRUE)
    ELSE IF cleanText = <<"2">> THEN Class("reschedule", "reagendar", 7, TRUE)
    ELSE IF \E i \in 1..Len(cleanText) : cleanText[i] \in Digits
         THEN Class("fallback", "", 0, TRUE)
    ELSE Class("ignore", "", 0, TRUE)

\* The synchronous head of handleMessage: the input validation (a falsy text
\* is ignored as invalid) and the 1 / 2 / other digits / anything else mapping.
ClassifyReply(messageText) ==
    LET cleanText == Trim(messageText) IN
    IF messageText = <<>> THEN Class("ignore", "", 0, FALSE)
    ELSE IF cleanText = <<"1">> THEN Class("confirm", "confirmar", 6, TRUE)
    ELSE IF cleanText = <<"2">> THEN Class("reschedule", "reagendar", 7, TRUE)
    ELSE IF AllDigits(cleanText) THEN Class("fallback", "", 0, TRUE)
    ELSE Class("ignore", "", 0, TRUE)

\* ------------------------------------------------------------- test data
\* Phone numbers are sequences of one-character strings.
Str13 == <<"5", "5", "1", "1", "9", "9", "9", "9", "9", "8", "8", "8", "8">>
Str12 == <<"5", "5", "2", "1", "8", "8", "8", "8", "7", "7", "7", "7">>
Tel1Fmt == <<"(", "1", "1", ")", " ", "9", "9", "9", "9", "9", "-", "8", "8", "8", "8">>
Tel2Fmt == <<"2", "1", " ", "8", "8", "8", "8", "-", "7", "7", "7", "7">>

Tenants == {1, 2}

\* all_patients
Patients ==
    [i \in 1..3 |->
        CASE i = 1 -> [tel1 |-> Tel1Fmt, tel2 |-> <<>>]
          [] i = 2 -> [tel1 |-> <<>>, tel2 |-> Tel2Fmt]
          [] i = 3 -> [tel1 |-> <<>>, tel2 |-> <<>>]]

\* of_schedules (the columns this core never writes); dates are day offsets
\* from today.
Schedules ==
    [i \in 1..5 |->
        CASE i = 1 -> [owner |-> 1, patient |-> 1, dates |-> 0, times |-> 2]
          [] i = 2 -> [owner |-> 1, patient |-> 1, dates |-> 1, times |-> 1]
          [] i = 3 -> [owner |-> 2, patient |-> 2, dates |-> 0, times |-> 1]
          [] i = 4 -> [owner |-> 1, patient |-> 3, dates |-> 0, times |-> 3]
          [] i = 5 -> [owner |-> 1, patient |-> 1, dates |-> -2, times |-> 1]]

ScheduleIds == DOMAIN Schedules

\* wa_templates
Templates ==
    [i \in 1..4 |->
        CASE i = 1 -> [owner_id |-> 1, type |-> "confirmar", active |-> TRUE, created_at |-> 1]
          [] i = 2 -> [owner_id |-> 1, type |-> "reagendar", active |-> TRUE, created_at |-> 2]
          [] i = 3 -> [owner_id |-> 2, type |-> "confirmar", active |-> TRUE, created_at |-> 3]
          [] i = 4 -> [owner_id |-> 1, type |-> "confirmar", active |-> FALSE, created_at |-> 4]]

TemplateIds == DOMAIN Templates

SenderNumbers == {Str13, Str12}

\* Reply texts of the handler runs.
ReplyTexts == {<<"1">>, <<" ", "1", "\n">>, <<"2">>, <<"9">>, <<"o", "k">>,
               <<"1", "a">>, <<>>}
RaceTenants == {1}
RaceTexts == {<<"1">>, <<"2">>, <<"9">>, <<"o", "k">>}

\* Reply texts of the classifier runs: every string up to MaxTextLen.
Alphabet == {"1", "2", "9", " ", "a"}
AllTexts == UNION {[1..n -> Alphabet] : n \in 0..MaxTextLen}

\* data of a webhook event.  present is FALSE for a value that is undefined;
\* an empty sequence is a text that is undefined or empty, "null" a QR code
\* that is, "undefined" a state that is.  group tells whether key.remoteJid
\* contains "@g.us"; number is remoteJid without "@s.whatsapp.net".
NoKey == [present |-> FALSE, fromMe |-> FALSE, group |-> FALSE, number |-> <<>>]
NoMessage == [present |-> FALSE, conversation |-> <<>>, extendedText |-> <<>>]
NoData ==
    [present |-> FALSE, key |-> NoKey, message |-> NoMessage, qrcode |-> "null",
     state |-> "undefined", user |-> [id |-> "null", name |-> "null"]]
EmptyData == [NoData EXCEPT !.present = TRUE]

\* ------------------------------------------------------------- processes
Handlers == {"m1", "m2"}     \* webhook deliveries running handleMessage
Timers == {"t1", "t2"}       \* timer callbacks running QueueProcessor.processQueue
Manuals == {"man"}           \* on-demand batch triggers
Items == {"pi"}              \* direct processQueueItem calls
Batchers == Timers \cup Manuals
Connectors == {"cn"}         \* connectTenant calls
Disconnectors == {"dc"}      \* disconnectSession calls
StatusReaders == {"gs"}      \* getSessionStatus calls
Procs ==
    Handlers \cup Timers \cup Manuals \cup Items \cup Connectors \cup Disconnectors
        \cup StatusReaders

\* A new invocation takes the first free slot of its kind.
Before(p) == CASE p = "m2" -> {"m1"} [] p = "t2" -> {"t1"} [] OTHER -> {}

FirstFree(p) ==
    /\ pc[p] = "idle"
    /\ \A q \in Before(p) : pc[q] # "idle"

\* Every invocation of an operation is counted; a run bounds the count.
Invoked == calls' = calls + 1

\* ops is the order of the broker requests a connectTenant call has issued.
\* rows0, sends0, fails0, msgs0 and status0 are not program state: they record the
\* number of wa_queue rows, of broker calls and of failed broker calls, and
\* the wa_messages rows and the tenant's session status, at the moment a call
\* starts, so that what the call did can be stated when it returns.
NoFrame ==
    [ownerId |-> 0, senderNumber |-> <<>>, messageText |-> <<>>,
     action |-> "", templateType |-> "", statusToSet |-> 0,
     schedule |-> 0, template |-> 0,
     scheduleId |-> 0, item |-> 0, caller |-> "",
     batch |-> <<>>, kind |-> "", limit |-> 0,
     rows0 |-> 0, sends0 |-> 0, fails0 |-> 0, msgs0 |-> EmptyBag,
     tenantId |-> 0, existingSession |-> FALSE, sessionExistsInEvolution |-> FALSE,
     status |-> "", status0 |-> "", qrCode |-> "null", sessionToken |-> "null",
     ops |-> <<>>, evolutionStatus |-> "undefined",
     entry |-> "", event |-> "", data |-> NoData]

\* entry names the method a webhook delivery came in through; like rows0 it is
\* not program state.
\* The number of elements of bag b that satisfy Test.
CountIn(b, Test(_)) ==
    LET S == {m \in BagToSet(b) : Test(m)} IN
    IF S = {} THEN 0 ELSE BagCardinality([m \in S |-> b[m]])

IsFailedSend(m) == ~m.ok

NoResult ==
    [success |-> FALSE, action |-> "none",
     statusUpdated |-> "undefined", templateSent |-> "undefined"]

Response(success, action, statusUpdated, templateSent) ==
    [success |-> success, action |-> action,
     statusUpdated |-> statusUpdated, templateSent |-> templateSent]

\* Message bodies.  The clarification text of handleFallbackResponse is
\* "Resposta invalida. Por favor, responda com:\n1 - Para confirmar\n2 - Para
\* reagendar"; options lists the reply numbers a body names.
FallbackText ==
    [kind |-> "fallback", template_id |-> 0, schedule_id |-> 0,
     options |-> <<"1", "2">>]

\* processTemplate: the template body with the appointment's fields filled in.
processTemplate(templateId, scheduleId) ==
    [kind |-> "template", template_id |-> templateId, schedule_id |-> scheduleId,
     options |-> <<>>]

NoSession == [status |-> "NONE", evolutionApiKey |-> FALSE]

\* qrCode and sessionToken are "null" or the payload the broker returned;
\* phoneNumber, profileName and connectedAt are "null" or set.
NoSessionData ==
    [qrCode |-> "null", sessionToken |-> "null", phoneNumber |-> "null",
     profileName |-> "null", connectedAt |-> "null"]

\* data.user of a connection.update event: the account that is logged in.
KnownUser == [id |-> "jid", name |-> "name"]
NoUser == [id |-> "null", name |-> "null"]
Users == {KnownUser, NoUser}

\* The columns the state open writes besides the status.
ConnectedData(user) ==
    [qrCode |-> "null", sessionToken |-> "null", phoneNumber |-> user.id,
     profileName |-> user.name, connectedAt |-> "now"]

\* WhatsAppConnectionResult; ok is FALSE when connectTenant threw.
NoConnection == [ok |-> FALSE, status |-> "", qrCode |-> "null", sessionToken |-> "null"]

NoClass == Class("none", "", 0, FALSE)

\* second is the session row of tenant 2, if any.
InitOf(second) ==
    /\ sts = [a \in ScheduleIds |-> 0]
    /\ whatsConf = [a \in ScheduleIds |-> FALSE]
    /\ queue = <<>>
    /\ messages = EmptyBag
    /\ sessions = [t \in Tenants |->
                      IF t = 1 THEN [status |-> "CONNECTED", evolutionApiKey |-> TRUE]
                      ELSE second]
    /\ brokerSends = EmptyBag
    /\ isProcessing = FALSE
    /\ skipped = 0
    /\ pc = [p \in Procs |-> "idle"]
    /\ frame = [p \in Procs |-> NoFrame]
    /\ result = [p \in Procs |-> NoResult]
    /\ calls = 0
    /\ sessionRows = [t \in Tenants |->
                         IF t = 1 \/ second.status # "NONE" THEN 1 ELSE 0]
    /\ sessionData = [t \in Tenants |->
                         IF t = 1 THEN ConnectedData(KnownUser) ELSE NoSessionData]
    /\ instances = {1}
    /\ connection = NoConnection
    /\ received = <<>>

InitCore == InitOf(NoSession)

Init ==
    /\ InitCore
    /\ cin = <<>>
    /\ cout = NoClass

\* ---------------------------------------------------------------- queries
\* findPendingScheduleForNumber: the rows the SQL query can return.  ORDER BY
\* dates, times LIMIT 1 leaves the choice among equal rows to the database.
CleanNumber(phoneNumber) ==
    LET c0 == StripNonDigits(phoneNumber)
        c1 == IF Len(c0) = 13 /\ StartsWith55(c0) THEN SubSeq(c0, 3, Len(c0)) ELSE c0
    IN  IF Len(c1) = 12 /\ StartsWith55(c1) THEN SubSeq(c1, 3, Len(c1)) ELSE c1

\* The phone condition of the WHERE clause.
TelsMatch(phoneNumber, tel1, tel2) ==
    LET numberSuffix == Slice8(CleanNumber(phoneNumber)) IN
    \/ Contains(SqlStrip(tel1), numberSuffix)
    \/ Contains(SqlStrip(tel2), numberSuffix)

PhoneMatches(phoneNumber, patient) ==
    TelsMatch(phoneNumber, Patients[patient].tel1, Patients[patient].tel2)

PendingCandidates_AnyDate(ownerId, phoneNumber) ==
    {a \in ScheduleIds :
        /\ Schedules[a].owner = ownerId
        /\ sts[a] \notin {6, 7}
        /\ Schedules[a].patient \in DOMAIN Patients
        /\ PhoneMatches(phoneNumber, Schedules[a].patient)}

PendingCandidates(ownerId, phoneNumber) ==
    {a \in ScheduleIds :
        /\ Schedules[a].owner = ownerId
        /\ sts[a] \notin {6, 7}
        /\ Schedules[a].dates >= -1
        /\ Schedules[a].patient \in DOMAIN Patients
        /\ PhoneMatches(phoneNumber, Schedules[a].patient)}

Earlier_TimesOnly(a, b) == Schedules[a].times < Schedules[b].times

Earlier(a, b) ==
    \/ Schedules[a].dates < Schedules[b].dates
    \/ /\ Schedules[a].dates = Schedules[b].dates
       /\ Schedules[a].times < Schedules[b].times

findPendingScheduleForNumber(ownerId, phoneNumber) ==
    LET c == PendingCandidates(ownerId, phoneNumber) IN
    {a \in c : \A b \in c : ~Earlier(b, a)}

\* waTemplateRepository.getByType: the newest active template, 0 for null.
getByType(ownerId, type) ==
    LET c == {t \in TemplateIds :
                 /\ Templates[t].owner_id = ownerId
                 /\ Templates[t].type = type
                 /\ Templates[t].active}
    IN  IF c = {} THEN 0
        ELSE CHOOSE t \in c : \A u \in c : Templates[u].created_at <= Templates[t].created_at

SendSessionReady_AnyFound(tenantId) ==
    /\ sessions[tenantId].status \in {"CONNECTED", "CONNECTING"}
    /\ sessions[tenantId].evolutionApiKey

\* The session lookup and checks at the head of whatsappService.sendMessage.
SendSessionReady(tenantId) ==
    /\ sessions[tenantId].status \in {"CONNECTED", "CONNECTING"}
    /\ sessions[tenantId].status = "CONNECTED"
    /\ sessions[tenantId].evolutionApiKey

\* QueueService.validateWhatsAppSession: TRUE when it does not throw.
validateWhatsAppSession(ownerId) ==
    /\ sessions[ownerId].status \in {"CONNECTED", "CONNECTING"}
    /\ sessions[ownerId].status # "CONNECTING"
    /\ sessions[ownerId].status = "CONNECTED"

WaitingOf_Unsent(scheduleId) ==
    {i \in 1..Len(queue) :
        queue[i].schedule_id = scheduleId /\ queue[i].status # "Enviada"}

WaitingOf_OrError(scheduleId) ==
    {i \in 1..Len(queue) :
        queue[i].schedule_id = scheduleId /\ queue[i].status \in {"Aguardando", "Erro"}}

\* Row ids of the Waiting rows of one appointment, oldest first.
WaitingOf(scheduleId) ==
    {i \in 1..Len(queue) :
        queue[i].schedule_id = scheduleId /\ queue[i].status = "Aguardando"}

Min(S) == CHOOSE x \in S : \A y \in S : x <= y

\* SELECT DISTINCT schedule_id ... WHERE status = 'Aguardando'
\* ORDER BY created_at ASC LIMIT limit
RECURSIVE DistinctWaiting(_, _)
DistinctWaiting(i, seen) ==
    IF i > Len(queue) THEN <<>>
    ELSE IF queue[i].status = "Aguardando" /\ queue[i].schedule_id \notin seen
         THEN <<queue[i].schedule_id>>
              \o DistinctWaiting(i + 1, seen \cup {queue[i].schedule_id})
         ELSE DistinctWaiting(i + 1, seen)

SelectBatch(limit) ==
    LET all == DistinctWaiting(1, {}) IN
    IF Len(all) <= limit THEN all ELSE SubSeq(all, 1, limit)

\* patient.tel1 || patient.tel2
PatientPhone(patient) ==
    IF Patients[patient].tel1 # <<>> THEN Patients[patient].tel1
    ELSE Patients[patient].tel2

\* UPDATE wa_queue SET status = ... WHERE id = queueId
updateQueueStatus_NoSentAt(q, queueId, status) ==
    [q EXCEPT ![queueId].status = status]

updateQueueStatus(q, queueId, status) ==
    [q EXCEPT ![queueId].status = status,
              ![queueId].sent_at = (status = "Enviada") \/ @]

\* scheduleRepository.updateStatus
updateStatus(s, scheduleId, newStatus) ==
    [s EXCEPT ![scheduleId] = newStatus]

QueueRow(scheduleId, ownerId, templateId) ==
    [schedule_id |-> scheduleId, owner_id |-> ownerId,
     template_id |-> templateId, status |-> "Aguardando", sent_at |-> FALSE]

LogRow(scheduleId, direction, status) ==
    [schedule_id |-> scheduleId, direction |-> direction, status |-> status]

\* ------------------------------------------------------- returning a call
\* What stays visible of a finished handleMessage call next to its result:
\* the tenant, the sender, the class of the reply and the appointment it was
\* applied to.
HandlerKeep(f) ==
    [NoFrame EXCEPT !.ownerId = f.ownerId, !.senderNumber = f.senderNumber,
                    !.action = f.action, !.schedule = f.schedule]

ActionName_AlwaysConfirmed(f) == "confirmed"

ActionName(f) == IF f.action = "confirm" THEN "confirmed" ELSE "rescheduled"

Finish(p, res, keep) ==
    /\ pc' = [pc EXCEPT ![p] = "idle"]
    /\ result' = [result EXCEPT ![p] = res]
    /\ frame' = [frame EXCEPT ![p] = keep]

\* QueueService.processQueue: the loop moves on to the next selected
\* appointment, or the run ends and the caller's finally releases the flag.
BatchEnd(p) ==
    /\ Finish(p, Response(TRUE, "none", "undefined", "undefined"), NoFrame)
    /\ isProcessing' = IF frame[p].kind \in {"scheduled", "once"} THEN FALSE
                       ELSE isProcessing

BatchNext(p) ==
    LET f == frame[p]
        rest == Tail(f.batch)
    IN  IF rest = <<>>
        THEN BatchEnd(p)
        ELSE /\ pc' = [pc EXCEPT ![p] = "pqi_select"]
             /\ frame' = [frame EXCEPT ![p] =
                    [f EXCEPT !.batch = rest, !.scheduleId = Head(rest), !.item = 0]]
             /\ UNCHANGED <<result, isProcessing>>

PqiReturn_AbortBatch(p, ok) ==
    IF p \in Handlers THEN
        /\ Finish(p,
                  IF ok THEN Response(TRUE, ActionName(frame[p]), "true", "true")
                  ELSE Response(FALSE, ActionName(frame[p]), "undefined", "undefined"),
                  HandlerKeep(frame[p]))
        /\ UNCHANGED isProcessing
    ELSE IF p \in Items THEN
        /\ Finish(p, Response(ok, "none", "undefined", "undefined"),
                  [NoFrame EXCEPT !.scheduleId = frame[p].scheduleId])
        /\ UNCHANGED isProcessing
    ELSE IF ok THEN
        /\ pc' = [pc EXCEPT ![p] = "b_delay"]
        /\ UNCHANGED <<frame, result, isProcessing>>
    ELSE
        /\ Finish(p, Response(FALSE, "none", "undefined", "undefined"), NoFrame)
        /\ isProcessing' = IF frame[p].kind \in {"scheduled", "once"} THEN FALSE
                           ELSE isProcessing

\* processQueueItem returns (ok) or throws (~ok) into its caller.
PqiReturn(p, ok) ==
    IF p \in Handlers THEN
        \* processConfirmationAction: the success return or the catch block
        /\ Finish(p,
                  IF ok THEN Response(TRUE, ActionName(frame[p]), "true", "true")
                  ELSE Response(FALSE, ActionName(frame[p]), "undefined", "undefined"),
                  HandlerKeep(frame[p]))
        /\ UNCHANGED isProcessing
    ELSE IF p \in Items THEN
        \* of a finished direct call its appointment stays visible
        /\ Finish(p, Response(ok, "none", "undefined", "undefined"),
                  [NoFrame EXCEPT !.scheduleId = frame[p].scheduleId])
        /\ UNCHANGED isProcessing
    ELSE IF ok THEN
        \* the fixed delay between two sends of a batch
        /\ pc' = [pc EXCEPT ![p] = "b_delay"]
        /\ UNCHANGED <<frame, result, isProcessing>>
    ELSE BatchNext(p)

\* whatsappService.sendMessage returns (ok) or throws (~ok) into its caller.
SendReturn(p, ok) ==
    IF frame[p].caller = "fallback" THEN
        /\ Finish(p, Response(ok, "fallback", "undefined", "undefined"),
                  HandlerKeep(frame[p]))
        /\ UNCHANGED isProcessing
    ELSE
        /\ pc' = [pc EXCEPT ![p] = IF ok THEN "pqi_sent_upd" ELSE "pqi_serr_upd"]
        /\ UNCHANGED <<frame, result, isProcessing>>

SendTo(f) ==
    IF f.caller = "fallback"
    THEN StripNonDigits(formatPhoneForWhatsApp(f.senderNumber))
    ELSE StripNonDigits(formatPhoneForWhatsApp(
             PatientPhone(Schedules[queue[f.item].schedule_id].patient)))

SendText(f) ==
    IF f.caller = "fallback" THEN FallbackText
    ELSE processTemplate(queue[f.item].template_id, queue[f.item].schedule_id)

\* The wa_queue row a broker request is made for, 0 for the clarification
\* text; like rows0 it is not program state.
SendItem(f) == IF f.caller = "fallback" THEN 0 ELSE f.item

SendTenant(f) ==
    IF f.caller = "fallback" THEN f.ownerId
    ELSE Schedules[queue[f.item].schedule_id].owner

\* --------------------------------------------- IncomingMessageHandler
HandlerEnter_FallbackNeedsPending(p, ownerId, senderNumber, messageText) ==
    LET c == ClassifyReply(messageText)
        f == [NoFrame EXCEPT !.ownerId = ownerId, !.senderNumber = senderNumber,
                             !.messageText = messageText, !.action = c.action,
                             !.templateType = c.templateType,
                             !.statusToSet = c.statusToSet,
                             !.rows0 = Len(queue),
                             !.sends0 = BagCardinality(brokerSends),
                             !.fails0 = CountIn(brokerSends, IsFailedSend)]
    IN  CASE c.action = "ignore" ->
               Finish(p, Response(c.valid, "ignored", "undefined", "undefined"),
                      HandlerKeep(f))
          [] c.action = "fallback"
                /\ findPendingScheduleForNumber(ownerId, senderNumber) = {} ->
               Finish(p, Response(TRUE, "ignored", "undefined", "undefined"),
                      HandlerKeep(f))
          [] c.action = "fallback"
                /\ findPendingScheduleForNumber(ownerId, senderNumber) # {} ->
               /\ pc' = [pc EXCEPT ![p] = "send_find"]
               /\ frame' = [frame EXCEPT ![p] = [f EXCEPT !.caller = "fallback"]]
               /\ result' = [result EXCEPT ![p] = NoResult]
          [] OTHER ->
               /\ pc' = [pc EXCEPT ![p] = "h_find"]
               /\ frame' = [frame EXCEPT ![p] = f]
               /\ result' = [result EXCEPT ![p] = NoResult]

\* handleMessage up to its first await.
HandlerEnter(p, ownerId, senderNumber, messageText) ==
    LET c == ClassifyReply(messageText)
        f == [NoFrame EXCEPT !.ownerId = ownerId, !.senderNumber = senderNumber,
                             !.messageText = messageText, !.action = c.action,
                             !.templateType = c.templateType,
                             !.statusToSet = c.statusToSet,
                             !.rows0 = Len(queue),
                             !.sends0 = BagCardinality(brokerSends),
                             !.fails0 = CountIn(brokerSends, IsFailedSend)]
    IN  CASE c.action = "ignore" ->
               Finish(p, Response(c.valid, "ignored", "undefined", "undefined"),
                      HandlerKeep(f))
          [] c.action = "fallback" ->
               /\ pc' = [pc EXCEPT ![p] = "send_find"]
               /\ frame' = [frame EXCEPT ![p] = [f EXCEPT !.caller = "fallback"]]
               /\ result' = [result EXCEPT ![p] = NoResult]
          [] OTHER ->
               /\ pc' = [pc EXCEPT ![p] = "h_find"]
               /\ frame' = [frame EXCEPT ![p] = f]
               /\ result' = [result EXCEPT ![p] = NoResult]

\* A handleMessage call of its own.
handleMessage(p, ownerId, senderNumber, messageText) ==
    /\ FirstFree(p)
    /\ Invoked
    /\ HandlerEnter(p, ownerId, senderNumber, messageText)
    /\ UNCHANGED <<sts, whatsConf, queue, messages, sessions, brokerSends,
                   isProcessing, skipped, cin, received, cout, connVars>>

HandlerFind_NoTerminalGuard(p) ==
    LET f == frame[p]
        c == {a \in ScheduleIds :
                 /\ Schedules[a].owner = f.ownerId
                 /\ Schedules[a].patient \in DOMAIN Patients
                 /\ PhoneMatches(f.senderNumber, Schedules[a].patient)}
        found == {a \in c : \A b \in c : ~Earlier(b, a)}
    IN  /\ pc[p] = "h_find"
        /\ IF found = {}
           THEN Finish(p, Response(TRUE, "ignored", "undefined", "undefined"),
                       HandlerKeep(f))
           ELSE \E a \in found :
                  /\ pc' = [pc EXCEPT ![p] = "h_log"]
                  /\ frame' = [frame EXCEPT ![p].schedule = a]
                  /\ UNCHANGED result
        /\ UNCHANGED <<sts, whatsConf, queue, messages, sessions, brokerSends,
                       isProcessing, skipped, calls, cin, received, cout, connVars>>

\* handleMessage: the appointment lookup and the already-processed check.
HandlerFind(p) ==
    LET f == frame[p]
        found == findPendingScheduleForNumber(f.ownerId, f.senderNumber)
    IN  /\ pc[p] = "h_find"
        /\ IF found = {}
           THEN Finish(p, Response(TRUE, "ignored", "undefined", "undefined"),
                       HandlerKeep(f))
           ELSE \E a \in found :
                  IF sts[a] \in {6, 7}
                  THEN Finish(p, Response(TRUE, "ignored", "undefined", "undefined"),
                              HandlerKeep(f))
                  ELSE /\ pc' = [pc EXCEPT ![p] = "h_log"]
                       /\ frame' = [frame EXCEPT ![p].schedule = a]
                       /\ UNCHANGED result
        /\ UNCHANGED <<sts, whatsConf, queue, messages, sessions, brokerSends,
                       isProcessing, skipped, calls, cin, received, cout, connVars>>

\* handleMessage: waMessageRepository.log of the received reply.
HandlerLogReceived(p) ==
    /\ pc[p] = "h_log"
    /\ messages' = messages (+) SetToBag({LogRow(frame[p].schedule, "received", "Recebida")})
    /\ pc' = [pc EXCEPT ![p] = "pca_update"]
    /\ UNCHANGED <<sts, whatsConf, queue, sessions, brokerSends, isProcessing,
                   skipped, frame, result, calls, cin, received, cout, connVars>>

\* processConfirmationAction step 1: scheduleRepository.updateStatus.
PcaUpdateStatus(p) ==
    /\ pc[p] = "pca_update"
    /\ sts' = updateStatus(sts, frame[p].schedule, frame[p].statusToSet)
    /\ pc' = [pc EXCEPT ![p] = "pca_template"]
    /\ UNCHANGED <<whatsConf, queue, messages, sessions, brokerSends,
                   isProcessing, skipped, frame, result, calls, cin, received, cout, connVars>>

PcaGetTemplate_Rollback(p) ==
    LET f == frame[p]
        template == getByType(f.ownerId, f.templateType)
    IN  /\ pc[p] = "pca_template"
        /\ IF template = 0
           THEN /\ Finish(p, Response(FALSE, ActionName(f), "false", "false"),
                          HandlerKeep(f))
                /\ sts' = updateStatus(sts, f.schedule, 0)
           ELSE /\ pc' = [pc EXCEPT ![p] = "pca_enqueue"]
                /\ frame' = [frame EXCEPT ![p].template = template]
                /\ UNCHANGED <<result, sts>>
        /\ UNCHANGED <<whatsConf, queue, messages, sessions, brokerSends,
                       isProcessing, skipped, calls, cin, received, cout, connVars>>

\* processConfirmationAction step 2: the template lookup.
PcaGetTemplate(p) ==
    LET f == frame[p]
        template == getByType(f.ownerId, f.templateType)
    IN  /\ pc[p] = "pca_template"
        /\ IF template = 0
           THEN Finish(p, Response(FALSE, ActionName(f), "true", "false"),
                       HandlerKeep(f))
           ELSE /\ pc' = [pc EXCEPT ![p] = "pca_enqueue"]
                /\ frame' = [frame EXCEPT ![p].template = template]
                /\ UNCHANGED result
        /\ UNCHANGED <<sts, whatsConf, queue, messages, sessions, brokerSends,
                       isProcessing, skipped, calls, cin, received, cout, connVars>>

PcaEnqueue_Once(p) ==
    LET f == frame[p] IN
    /\ pc[p] = "pca_enqueue"
    /\ queue' = IF \E i \in 1..Len(queue) : queue[i].schedule_id = f.schedule
                THEN queue
                ELSE Append(queue, QueueRow(f.schedule, f.ownerId, f.template))
    /\ pc' = [pc EXCEPT ![p] = "pqi_select"]
    /\ frame' = [frame EXCEPT ![p].scheduleId = f.schedule, ![p].caller = "queue"]
    /\ UNCHANGED <<sts, whatsConf, messages, sessions, brokerSends, isProcessing,
                   skipped, result, calls, cin, received, cout, connVars>>

\* processConfirmationAction step 3: waQueueRepository.enqueue, then the call
\* of queueService.processQueueItem.
PcaEnqueue(p) ==
    LET f == frame[p] IN
    /\ pc[p] = "pca_enqueue"
    /\ queue' = Append(queue, QueueRow(f.schedule, f.ownerId, f.template))
    /\ pc' = [pc EXCEPT ![p] = "pqi_select"]
    /\ frame' = [frame EXCEPT ![p].scheduleId = f.schedule, ![p].caller = "queue"]
    /\ UNCHANGED <<sts, whatsConf, messages, sessions, brokerSends, isProcessing,
                   skipped, result, calls, cin, received, cout, connVars>>

\* ------------------------------ IncomingMessageHandler, failing collaborators
\* The appointment query throws: findPendingScheduleForNumber catches it and
\* answers null, which handleMessage takes for no pending appointment.
HandlerFindFails(p) ==
    /\ pc[p] = "h_find"
    /\ Finish(p, Response(TRUE, "ignored", "undefined", "undefined"),
              HandlerKeep(frame[p]))
    /\ UNCHANGED <<sts, whatsConf, queue, messages, sessions, brokerSends,
                   isProcessing, skipped, calls, cin, received, cout, connVars>>

\* waMessageRepository.log throws into the catch block of handleMessage.
HandlerLogFails(p) ==
    /\ pc[p] = "h_log"
    /\ Finish(p, Response(FALSE, "ignored", "undefined", "undefined"),
              HandlerKeep(frame[p]))
    /\ UNCHANGED <<sts, whatsConf, queue, messages, sessions, brokerSends,
                   isProcessing, skipped, calls, cin, received, cout, connVars>>

\* scheduleRepository.updateStatus throws into the catch block of
\* processConfirmationAction.
PcaUpdateStatusFails(p) ==
    /\ pc[p] = "pca_update"
    /\ Finish(p, Response(FALSE, ActionName(frame[p]), "undefined", "undefined"),
              HandlerKeep(frame[p]))
    /\ UNCHANGED <<sts, whatsConf, queue, messages, sessions, brokerSends,
                   isProcessing, skipped, calls, cin, received, cout, connVars>>

\* The template query throws: getByType catches it and answers null.
PcaGetTemplateFails(p) ==
    /\ pc[p] = "pca_template"
    /\ Finish(p, Response(FALSE, ActionName(frame[p]), "true", "false"),
              HandlerKeep(frame[p]))
    /\ UNCHANGED <<sts, whatsConf, queue, messages, sessions, brokerSends,
                   isProcessing, skipped, calls, cin, received, cout, connVars>>

\* waQueueRepository.enqueue throws into the catch block of
\* processConfirmationAction.
PcaEnqueueFails(p) ==
    /\ pc[p] = "pca_enqueue"
    /\ Finish(p, Response(FALSE, ActionName(frame[p]), "undefined", "undefined"),
              HandlerKeep(frame[p]))
    /\ UNCHANGED <<sts, whatsConf, queue, messages, sessions, brokerSends,
                   isProcessing, skipped, calls, cin, received, cout, connVars>>

\* ------------------------------------------------ whatsappService.sendMessage
\* sendMessage: the session lookup and its checks.
SendMessageFind(p) ==
    /\ pc[p] = "send_find"
    /\ IF SendSessionReady(SendTenant(frame[p]))
       THEN /\ pc' = [pc EXCEPT ![p] = "send_call"]
            /\ UNCHANGED <<frame, result, isProcessing>>
       ELSE SendReturn(p, FALSE)
    /\ UNCHANGED <<sts, whatsConf, queue, messages, sessions, brokerSends,
                   skipped, calls, cin, received, cout, connVars>>

\* sendMessage: evolutionService.sendTextMessage, which succeeds or throws.
SendMessageCall(p) ==
    /\ pc[p] = "send_call"
    /\ \E ok \in BOOLEAN :
         /\ brokerSends' = brokerSends (+) SetToBag({
                [tenant |-> SendTenant(frame[p]), number |-> SendTo(frame[p]),
                 text |-> SendText(frame[p]), ok |-> ok,
                 item |-> SendItem(frame[p])]})
         /\ SendReturn(p, ok)
    /\ UNCHANGED <<sts, whatsConf, queue, messages, sessions, skipped,
                   calls, cin, received, cout, connVars>>

\* ------------------------------------------- QueueService.processQueueItem
\* Step 1-3: the oldest Waiting row of the appointment, its patient and its
\* template.
PqiSelect(p) ==
    LET f == frame[p]
        waiting == WaitingOf(f.scheduleId)
    IN  /\ pc[p] = "pqi_select"
        /\ IF waiting = {}
           THEN PqiReturn(p, TRUE)
           ELSE LET item == Min(waiting)
                    patient == Schedules[f.scheduleId].patient
                    valid == /\ patient \in DOMAIN Patients
                             /\ PatientPhone(patient) # <<>>
                             /\ queue[item].template_id \in TemplateIds
                IN  /\ pc' = [pc EXCEPT ![p] = IF valid THEN "pqi_validate"
                                               ELSE "pqi_invalid"]
                    /\ frame' = [frame EXCEPT ![p].item = item, ![p].caller = "queue"]
                    /\ UNCHANGED <<result, isProcessing>>
        /\ UNCHANGED <<sts, whatsConf, queue, messages, sessions, brokerSends,
                       skipped, calls, cin, received, cout, connVars>>

PqiMarkInvalid_KeepWaiting(p) ==
    /\ pc[p] = "pqi_invalid"
    /\ PqiReturn(p, FALSE)
    /\ UNCHANGED <<sts, whatsConf, queue, messages, sessions, brokerSends, skipped,
                   calls, cin, received, cout, connVars>>

\* Patient, phone or template missing: the row becomes Erro and the call throws.
PqiMarkInvalid(p) ==
    /\ pc[p] = "pqi_invalid"
    /\ queue' = updateQueueStatus(queue, frame[p].item, "Erro")
    /\ PqiReturn(p, FALSE)
    /\ UNCHANGED <<sts, whatsConf, messages, sessions, brokerSends, skipped,
                   calls, cin, received, cout, connVars>>

\* Step 6: the session is validated again right before the send.
PqiValidate(p) ==
    /\ pc[p] = "pqi_validate"
    /\ pc' = [pc EXCEPT ![p] =
                 IF validateWhatsAppSession(queue[frame[p].item].owner_id)
                 THEN "send_find" ELSE "pqi_verr_upd"]
    /\ UNCHANGED <<sts, whatsConf, queue, messages, sessions, brokerSends,
                   isProcessing, skipped, frame, result, calls, cin, received, cout, connVars>>

PqiValidationErrUpdate(p) ==
    /\ pc[p] = "pqi_verr_upd"
    /\ queue' = updateQueueStatus(queue, frame[p].item, "Erro")
    /\ pc' = [pc EXCEPT ![p] = "pqi_verr_log"]
    /\ UNCHANGED <<sts, whatsConf, messages, sessions, brokerSends, isProcessing,
                   skipped, frame, result, calls, cin, received, cout, connVars>>

PqiValidationErrLog_Silent(p) ==
    /\ pc[p] = "pqi_verr_log"
    /\ PqiReturn(p, FALSE)
    /\ UNCHANGED <<sts, whatsConf, queue, messages, sessions, brokerSends, skipped,
                   calls, cin, received, cout, connVars>>

PqiValidationErrLog(p) ==
    /\ pc[p] = "pqi_verr_log"
    /\ messages' = messages (+) SetToBag({LogRow(queue[frame[p].item].schedule_id, "sent", "Erro")})
    /\ PqiReturn(p, FALSE)
    /\ UNCHANGED <<sts, whatsConf, queue, sessions, brokerSends, skipped,
                   calls, cin, received, cout, connVars>>

\* Step 8: the row becomes Enviada with its sent_at.
PqiSentUpdate(p) ==
    /\ pc[p] = "pqi_sent_upd"
    /\ queue' = updateQueueStatus(queue, frame[p].item, "Enviada")
    /\ pc' = [pc EXCEPT ![p] = "pqi_sent_log"]
    /\ UNCHANGED <<sts, whatsConf, messages, sessions, brokerSends, isProcessing,
                   skipped, frame, result, calls, cin, received, cout, connVars>>

\* Step 9: the audit row.
PqiSentLog(p) ==
    /\ pc[p] = "pqi_sent_log"
    /\ messages' = messages (+) SetToBag({LogRow(queue[frame[p].item].schedule_id, "sent", "Enviada")})
    /\ pc' = [pc EXCEPT ![p] = "pqi_sent_conf"]
    /\ UNCHANGED <<sts, whatsConf, queue, sessions, brokerSends, isProcessing,
                   skipped, frame, result, calls, cin, received, cout, connVars>>

\* Step 10: whatsConf = 1.
PqiSentConfirm(p) ==
    /\ pc[p] = "pqi_sent_conf"
    /\ whatsConf' = [whatsConf EXCEPT ![frame[p].scheduleId] = TRUE]
    /\ PqiReturn(p, TRUE)
    /\ UNCHANGED <<sts, queue, messages, sessions, brokerSends, skipped,
                   calls, cin, received, cout, connVars>>

\* The catch block of the send: the row becomes Erro, ...
PqiSendErrUpdate(p) ==
    /\ pc[p] = "pqi_serr_upd"
    /\ queue' = updateQueueStatus(queue, frame[p].item, "Erro")
    /\ pc' = [pc EXCEPT ![p] = "pqi_serr_log"]
    /\ UNCHANGED <<sts, whatsConf, messages, sessions, brokerSends, isProcessing,
                   skipped, frame, result, calls, cin, received, cout, connVars>>

\* ... the failed attempt is logged and the error is thrown on.
PqiSendErrLog(p) ==
    /\ pc[p] = "pqi_serr_log"
    /\ messages' = messages (+) SetToBag({LogRow(queue[frame[p].item].schedule_id, "sent", "Erro")})
    /\ PqiReturn(p, FALSE)
    /\ UNCHANGED <<sts, whatsConf, queue, sessions, brokerSends, skipped,
                   calls, cin, received, cout, connVars>>

\* ------------------------------------------------------- batch processing
Tick_NoGuard(p) ==
    /\ FirstFree(p)
    /\ Invoked
    /\ isProcessing' = TRUE
    /\ pc' = [pc EXCEPT ![p] = "b_select"]
    /\ frame' = [frame EXCEPT ![p] =
           [NoFrame EXCEPT !.kind = "scheduled", !.limit = DefaultLimit]]
    /\ result' = [result EXCEPT ![p] = NoResult]
    /\ UNCHANGED <<sts, whatsConf, queue, messages, sessions, brokerSends,
                   skipped, cin, received, cout, connVars>>

\* QueueProcessor.processQueue, the timer callback: skipped while a run is in
\* flight, else the flag is taken and queueService.processQueue is called.
TimerFires(p) ==
    /\ IF isProcessing
       THEN /\ skipped' = IF skipped < MaxSkips THEN skipped + 1 ELSE skipped
            /\ UNCHANGED <<pc, frame, result, isProcessing>>
       ELSE /\ isProcessing' = TRUE
            /\ pc' = [pc EXCEPT ![p] = "b_select"]
            /\ frame' = [frame EXCEPT ![p] =
                   [NoFrame EXCEPT !.kind = "scheduled", !.limit = DefaultLimit]]
            /\ result' = [result EXCEPT ![p] = NoResult]
            /\ UNCHANGED skipped
    /\ UNCHANGED <<sts, whatsConf, queue, messages, sessions, brokerSends,
                   cin, received, cout, connVars>>

\* One counted firing of the timer.
Tick(p) ==
    /\ FirstFree(p)
    /\ Invoked
    /\ TimerFires(p)

\* QueueProcessor.start: setInterval fires the callback again and again, for
\* as long as the process lives; these firings are not counted.
Interval ==
    \E p \in Timers :
        /\ FirstFree(p)
        /\ TimerFires(p)
        /\ UNCHANGED calls

\* QueueProcessor.processOnce: throws while a run is in flight.
processOnce(p, limit) ==
    /\ FirstFree(p)
    /\ Invoked
    /\ IF isProcessing
       THEN /\ Finish(p, Response(FALSE, "none", "undefined", "undefined"), NoFrame)
            /\ UNCHANGED isProcessing
       ELSE /\ isProcessing' = TRUE
            /\ pc' = [pc EXCEPT ![p] = "b_select"]
            /\ frame' = [frame EXCEPT ![p] =
                   [NoFrame EXCEPT !.kind = "once", !.limit = limit]]
            /\ result' = [result EXCEPT ![p] = NoResult]
    /\ UNCHANGED <<sts, whatsConf, queue, messages, sessions, brokerSends,
                   skipped, cin, received, cout, connVars>>

\* QueueController.processQueue (POST /process): calls
\* queueService.processQueue directly.
HttpProcessQueue(p, limit) ==
    /\ FirstFree(p)
    /\ Invoked
    /\ pc' = [pc EXCEPT ![p] = "b_select"]
    /\ frame' = [frame EXCEPT ![p] = [NoFrame EXCEPT !.kind = "http", !.limit = limit]]
    /\ result' = [result EXCEPT ![p] = NoResult]
    /\ UNCHANGED <<sts, whatsConf, queue, messages, sessions, brokerSends,
                   isProcessing, skipped, cin, received, cout, connVars>>

\* QueueService.processQueue: the selection of the appointments of this run.
BatchSelect(p) ==
    LET batch == SelectBatch(frame[p].limit) IN
    /\ pc[p] = "b_select"
    /\ IF batch = <<>>
       THEN BatchEnd(p)
       ELSE /\ pc' = [pc EXCEPT ![p] = "pqi_select"]
            /\ frame' = [frame EXCEPT ![p].batch = batch,
                                      ![p].scheduleId = Head(batch)]
            /\ UNCHANGED <<result, isProcessing>>
    /\ UNCHANGED <<sts, whatsConf, queue, messages, sessions, brokerSends,
                   skipped, calls, cin, received, cout, connVars>>

BatchSelectFails_KeepFlag(p) ==
    /\ pc[p] = "b_select"
    /\ Finish(p, Response(FALSE, "none", "undefined", "undefined"),
              [NoFrame EXCEPT !.kind = frame[p].kind])
    /\ UNCHANGED <<sts, whatsConf, queue, messages, sessions, brokerSends,
                   isProcessing, skipped, calls, cin, received, cout, connVars>>

\* QueueService.processQueue: the selection fails and the run throws; the
\* finally block of QueueProcessor.processQueue or processOnce releases the
\* flag.  Of a run that threw its kind stays visible.
BatchSelectFails(p) ==
    /\ pc[p] = "b_select"
    /\ Finish(p, Response(FALSE, "none", "undefined", "undefined"),
              [NoFrame EXCEPT !.kind = frame[p].kind])
    /\ isProcessing' = IF frame[p].kind \in {"scheduled", "once"} THEN FALSE
                       ELSE isProcessing
    /\ UNCHANGED <<sts, whatsConf, queue, messages, sessions, brokerSends,
                   skipped, calls, cin, received, cout, connVars>>

\* QueueService.processQueue: the delay after an item, then the next one.
BatchDelay(p) ==
    /\ pc[p] = "b_delay"
    /\ BatchNext(p)
    /\ UNCHANGED <<sts, whatsConf, queue, messages, sessions, brokerSends,
                   skipped, calls, cin, received, cout, connVars>>

\* ------------------------------------------------ single-await operations
\* WaQueueRepository.enqueue called on its own.
enqueue(scheduleId, templateId) ==
    /\ Invoked
    /\ queue' = Append(queue, QueueRow(scheduleId, Schedules[scheduleId].owner, templateId))
    /\ UNCHANGED <<sts, whatsConf, messages, sessions, brokerSends, isProcessing,
                   skipped, pc, frame, result, cin, received, cout, connVars>>

\* QueueService.processQueueItem called on its own.
processQueueItem(p, scheduleId) ==
    /\ FirstFree(p)
    /\ Invoked
    /\ pc' = [pc EXCEPT ![p] = "pqi_select"]
    /\ frame' = [frame EXCEPT ![p] =
           [NoFrame EXCEPT !.scheduleId = scheduleId,
                           !.rows0 = Len(queue),
                           !.sends0 = BagCardinality(brokerSends),
                           !.fails0 = CountIn(brokerSends, IsFailedSend),
                           !.msgs0 = messages]]
    /\ result' = [result EXCEPT ![p] = NoResult]
    /\ UNCHANGED <<sts, whatsConf, queue, messages, sessions, brokerSends,
                   isProcessing, skipped, cin, received, cout, connVars>>

cancelQueueItem_AnyStatus(scheduleId) ==
    /\ Invoked
    /\ queue' = [i \in 1..Len(queue) |->
                    IF queue[i].schedule_id = scheduleId
                    THEN [queue[i] EXCEPT !.status = "Cancelada"]
                    ELSE queue[i]]
    /\ UNCHANGED <<sts, whatsConf, messages, sessions, brokerSends, isProcessing,
                   skipped, pc, frame, result, cin, received, cout, connVars>>

\* QueueService.cancelQueueItem.
cancelQueueItem(scheduleId) ==
    /\ Invoked
    /\ queue' = [i \in 1..Len(queue) |->
                    IF queue[i].schedule_id = scheduleId /\ queue[i].status = "Aguardando"
                    THEN [queue[i] EXCEPT !.status = "Cancelada"]
                    ELSE queue[i]]
    /\ UNCHANGED <<sts, whatsConf, messages, sessions, brokerSends, isProcessing,
                   skipped, pc, frame, result, cin, received, cout, connVars>>

ConnectionStatus_OpenOnly(state) ==
    IF state = "open" THEN "CONNECTED" ELSE "DISCONNECTED"

\* The status handleEvolutionConnectionUpdate derives from data.state.
ConnectionStatus(state) ==
    CASE state = "open" -> "CONNECTED"
      [] state = "connecting" -> "CONNECTING"
      [] OTHER -> "DISCONNECTED"

\* handleEvolutionConnectionUpdate for a tenant that has a session row: one
\* update writes status, phoneNumber, profileName and connectedAt, and the
\* QR code only when the status is CONNECTED.
handleEvolutionConnectionUpdate(tenantId, state, user) ==
    /\ sessions[tenantId].status # "NONE"
    /\ sessions' = [sessions EXCEPT ![tenantId].status = ConnectionStatus(state)]
    /\ sessionData' = [sessionData EXCEPT ![tenantId] =
           IF state = "open"
           THEN [ConnectedData(user) EXCEPT !.sessionToken = sessionData[tenantId].sessionToken]
           ELSE [NoSessionData EXCEPT !.sessionToken = sessionData[tenantId].sessionToken,
                                      !.qrCode = sessionData[tenantId].qrCode]]
    /\ UNCHANGED <<sts, whatsConf, queue, messages, brokerSends, isProcessing,
                   skipped, pc, frame, result, calls, cin, received, cout,
                   sessionRows, instances, connection>>

\* handleEvolutionQRCodeUpdate for a tenant that has a session row.
handleEvolutionQRCodeUpdate(tenantId, base64) ==
    /\ sessions[tenantId].status # "NONE"
    /\ sessionData' = [sessionData EXCEPT ![tenantId].qrCode = base64]
    /\ UNCHANGED <<sts, whatsConf, queue, messages, sessions, brokerSends,
                   isProcessing, skipped, pc, frame, result, calls, cin, received, cout,
                   sessionRows, instances, connection>>

\* ------------------------------------------- WhatsAppService.connectTenant
QrPayloads == {"qr1", "qr2"}
Tokens == {"tok"}

\* One broker request of a connectTenant call and whether it succeeded.
Op(name, ok) == [op |-> name, ok |-> ok]

Issued(p, name, ok) == Append(frame[p].ops, Op(name, ok))

\* connectTenant throws / returns.  Of a finished call the tenant and the
\* broker requests it issued (ops) stay visible.
ConnectKeep(f, ops) == [NoFrame EXCEPT !.tenantId = f.tenantId, !.ops = ops]

ConnectThrow(p, ops) ==
    /\ pc' = [pc EXCEPT ![p] = "idle"]
    /\ frame' = [frame EXCEPT ![p] = ConnectKeep(frame[p], ops)]
    /\ connection' = NoConnection

ConnectReturn(p, ops, qrCode) ==
    /\ pc' = [pc EXCEPT ![p] = "idle"]
    /\ frame' = [frame EXCEPT ![p] = ConnectKeep(frame[p], ops)]
    /\ connection' = [ok |-> TRUE, status |-> frame[p].status, qrCode |-> qrCode,
                      sessionToken |-> frame[p].sessionToken]

\* connectTenant up to findActiveSession (the API key of the configuration is
\* set).
connectTenant(p, tenantId) ==
    /\ FirstFree(p)
    /\ Invoked
    /\ pc' = [pc EXCEPT ![p] = "c_find"]
    /\ frame' = [frame EXCEPT ![p] =
           [NoFrame EXCEPT !.tenantId = tenantId,
                           !.status0 = sessions[tenantId].status]]
    /\ connection' = NoConnection
    /\ UNCHANGED <<sts, whatsConf, queue, messages, sessions, brokerSends,
                   isProcessing, skipped, result, cin, received, cout,
                   sessionRows, sessionData, instances>>

\* Step 4: findActiveSession.
ConnectFind(p) ==
    /\ pc[p] = "c_find"
    /\ pc' = [pc EXCEPT ![p] = "c_check"]
    /\ frame' = [frame EXCEPT ![p].existingSession =
                    sessions[frame[p].tenantId].status \in {"CONNECTING", "CONNECTED"}]
    /\ UNCHANGED <<sts, whatsConf, queue, messages, sessions, brokerSends,
                   isProcessing, skipped, result, calls, cin, received, cout, connVars>>

\* Step 5: evolutionService.checkSession, FALSE on 404 and on any error.
ConnectCheck(p) ==
    /\ pc[p] = "c_check"
    /\ \E found \in (IF frame[p].tenantId \in instances THEN BOOLEAN ELSE {FALSE}) :
         /\ pc' = [pc EXCEPT ![p] = IF found THEN "c_upsert" ELSE "c_create"]
         /\ frame' = [frame EXCEPT ![p].sessionExistsInEvolution = found,
                                   ![p].ops = Issued(p, "checkSession", TRUE)]
    /\ UNCHANGED <<sts, whatsConf, queue, messages, sessions, brokerSends,
                   isProcessing, skipped, result, calls, cin, received, cout, connVars>>

ConnectCreate_SkipSettings(p) ==
    /\ pc[p] = "c_create"
    /\ \E ok \in BOOLEAN :
         IF ok
         THEN /\ instances' = instances \cup {frame[p].tenantId}
              /\ pc' = [pc EXCEPT ![p] = "c_webhook"]
              /\ frame' = [frame EXCEPT ![p].ops = Issued(p, "createSession", TRUE)]
              /\ UNCHANGED connection
         ELSE /\ ConnectThrow(p, Issued(p, "createSession", FALSE))
              /\ UNCHANGED instances
    /\ UNCHANGED <<sts, whatsConf, queue, messages, sessions, brokerSends,
                   isProcessing, skipped, result, calls, cin, received, cout,
                   sessionRows, sessionData>>

\* createEvolutionSession: evolutionService.createSession (an instance that
\* exists already answers 403, which is taken as created) and the delay.
ConnectCreate(p) ==
    /\ pc[p] = "c_create"
    /\ \E ok \in BOOLEAN :
         IF ok
         THEN /\ instances' = instances \cup {frame[p].tenantId}
              /\ pc' = [pc EXCEPT ![p] = "c_configure"]
              /\ frame' = [frame EXCEPT ![p].ops = Issued(p, "createSession", TRUE)]
              /\ UNCHANGED connection
         ELSE /\ ConnectThrow(p, Issued(p, "createSession", FALSE))
              /\ UNCHANGED instances
    /\ UNCHANGED <<sts, whatsConf, queue, messages, sessions, brokerSends,
                   isProcessing, skipped, result, calls, cin, received, cout,
                   sessionRows, sessionData>>

\* createEvolutionSession: evolutionService.configureSession.
ConnectConfigure(p) ==
    /\ pc[p] = "c_configure"
    /\ \E ok \in BOOLEAN :
         IF ok
         THEN /\ pc' = [pc EXCEPT ![p] = "c_webhook"]
              /\ frame' = [frame EXCEPT ![p].ops = Issued(p, "configureSession", TRUE)]
              /\ UNCHANGED connection
         ELSE ConnectThrow(p, Issued(p, "configureSession", FALSE))
    /\ UNCHANGED <<sts, whatsConf, queue, messages, sessions, brokerSends,
                   isProcessing, skipped, result, calls, cin, received, cout,
                   sessionRows, sessionData, instances>>

ConnectWebhook_Abort(p) ==
    /\ pc[p] = "c_webhook"
    /\ \E ok \in BOOLEAN :
         IF ok
         THEN /\ pc' = [pc EXCEPT ![p] = "c_upsert"]
              /\ frame' = [frame EXCEPT ![p].ops = Issued(p, "configureWebhook", TRUE)]
              /\ UNCHANGED connection
         ELSE ConnectThrow(p, Issued(p, "configureWebhook", FALSE))
    /\ UNCHANGED <<sts, whatsConf, queue, messages, sessions, brokerSends,
                   isProcessing, skipped, result, calls, cin, received, cout,
                   sessionRows, sessionData, instances>>

\* createEvolutionSession: evolutionService.configureWebhook, whose failure
\* is logged and swallowed.
ConnectWebhook(p) ==
    /\ pc[p] = "c_webhook"
    /\ \E ok \in BOOLEAN :
         /\ pc' = [pc EXCEPT ![p] = "c_upsert"]
         /\ frame' = [frame EXCEPT ![p].ops = Issued(p, "configureWebhook", ok)]
    /\ UNCHANGED <<sts, whatsConf, queue, messages, sessions, brokerSends,
                   isProcessing, skipped, result, calls, cin, received, cout, connVars>>

upsertDatabaseSession_ByExisting(tenantId, existingSession) ==
    /\ sessions' = [sessions EXCEPT ![tenantId] =
                       [status |-> "CONNECTING", evolutionApiKey |-> TRUE]]
    /\ sessionRows' = [sessionRows EXCEPT ![tenantId] =
                          IF existingSession THEN @ ELSE @ + 1]
    /\ sessionData' = [sessionData EXCEPT ![tenantId] =
                          IF sessionRows[tenantId] = 0 THEN NoSessionData ELSE @]

\* upsertDatabaseSession: prisma upsert where { sessionName }: the row named
\* tenant_<id> is created when there is none, updated otherwise; either way
\* its status becomes CONNECTING.  existingSession is not used.
upsertDatabaseSession_KeepStatus(tenantId, existingSession) ==
    /\ sessions' = [sessions EXCEPT ![tenantId] =
                       [status |-> IF sessionRows[tenantId] = 0 THEN "CONNECTING"
                                   ELSE sessions[tenantId].status,
                        evolutionApiKey |-> TRUE]]
    /\ sessionRows' = [sessionRows EXCEPT ![tenantId] =
                          IF sessionRows[tenantId] = 0 THEN 1 ELSE @]
    /\ sessionData' = [sessionData EXCEPT ![tenantId] =
                          IF sessionRows[tenantId] = 0 THEN NoSessionData ELSE @]

upsertDatabaseSession(tenantId, existingSession) ==
    /\ sessions' = [sessions EXCEPT ![tenantId] =
                       [status |-> "CONNECTING", evolutionApiKey |-> TRUE]]
    /\ sessionRows' = [sessionRows EXCEPT ![tenantId] =
                          IF sessionRows[tenantId] = 0 THEN 1 ELSE @]
    /\ sessionData' = [sessionData EXCEPT ![tenantId] =
                          IF sessionRows[tenantId] = 0 THEN NoSessionData ELSE @]

\* Step 7: the session row is created or updated; connectTenant goes on with
\* the row the upsert returned.
ConnectUpsert(p) ==
    /\ pc[p] = "c_upsert"
    /\ upsertDatabaseSession(frame[p].tenantId, frame[p].existingSession)
    /\ pc' = [pc EXCEPT ![p] = "c_token"]
    /\ frame' = [frame EXCEPT ![p].status = sessions'[frame[p].tenantId].status]
    /\ UNCHANGED <<sts, whatsConf, queue, messages, brokerSends, isProcessing,
                   skipped, result, calls, cin, received, cout, instances, connection>>

\* Step 7.5: getAndSaveSessionToken; a token the broker returns is saved,
\* an error counts as no token.
ConnectToken(p) ==
    /\ pc[p] = "c_token"
    /\ \E token \in Tokens \cup {"null"} :
         /\ frame' = [frame EXCEPT ![p].sessionToken = token,
                                   ![p].ops = Issued(p, "getSessionToken", token # "null")]
         /\ sessionData' = [sessionData EXCEPT ![frame[p].tenantId].sessionToken =
                               IF token # "null" THEN token ELSE @]
    /\ pc' = [pc EXCEPT ![p] = "c_qr"]
    /\ UNCHANGED <<sts, whatsConf, queue, messages, sessions, brokerSends,
                   isProcessing, skipped, result, calls, cin, received, cout,
                   sessionRows, instances, connection>>

\* Step 8: getQRCodeIfNeeded on the status of the upserted row; getQRCode
\* returns the payload, or null on an error or an empty answer.
ConnectQr(p) ==
    /\ pc[p] = "c_qr"
    /\ IF frame[p].status = "CONNECTED"
       THEN ConnectReturn(p, frame[p].ops, "null")
       ELSE \E qrCode \in QrPayloads \cup {"null"} :
              IF qrCode = "null"
              THEN ConnectReturn(p, Issued(p, "getQRCode", FALSE), "null")
              ELSE /\ pc' = [pc EXCEPT ![p] = "c_saveqr"]
                   /\ frame' = [frame EXCEPT ![p].qrCode = qrCode,
                                             ![p].ops = Issued(p, "getQRCode", TRUE)]
                   /\ UNCHANGED connection
    /\ UNCHANGED <<sts, whatsConf, queue, messages, sessions, brokerSends,
                   isProcessing, skipped, result, calls, cin, received, cout,
                   sessionRows, sessionData, instances>>

\* updateSessionQRCode, then the result.
ConnectSaveQr(p) ==
    /\ pc[p] = "c_saveqr"
    /\ sessionData' = [sessionData EXCEPT ![frame[p].tenantId].qrCode = frame[p].qrCode]
    /\ ConnectReturn(p, frame[p].ops, frame[p].qrCode)
    /\ UNCHANGED <<sts, whatsConf, queue, messages, sessions, brokerSends,
                   isProcessing, skipped, result, calls, cin, received, cout,
                   sessionRows, instances>>

\* --------------------------------------- WhatsAppService.disconnectSession
disconnectSession(p, tenantId) ==
    /\ FirstFree(p)
    /\ Invoked
    /\ pc' = [pc EXCEPT ![p] = "d_find"]
    /\ frame' = [frame EXCEPT ![p] = [NoFrame EXCEPT !.tenantId = tenantId]]
    /\ result' = [result EXCEPT ![p] = NoResult]
    /\ UNCHANGED <<sts, whatsConf, queue, messages, sessions, brokerSends,
                   isProcessing, skipped, cin, received, cout, connVars>>

DisconnectFind_NoKeyCheck(p) ==
    /\ pc[p] = "d_find"
    /\ IF sessions[frame[p].tenantId].status # "NONE"
       THEN /\ pc' = [pc EXCEPT ![p] = "d_logout"]
            /\ UNCHANGED <<frame, result>>
       ELSE Finish(p, Response(FALSE, "none", "undefined", "undefined"),
                   [NoFrame EXCEPT !.tenantId = frame[p].tenantId])
    /\ UNCHANGED <<sts, whatsConf, queue, messages, sessions, brokerSends,
                   isProcessing, skipped, calls, cin, received, cout, connVars>>

\* The session row is looked up; none, or one without API key, throws.
DisconnectFind(p) ==
    /\ pc[p] = "d_find"
    /\ IF sessions[frame[p].tenantId].status # "NONE"
          /\ sessions[frame[p].tenantId].evolutionApiKey
       THEN /\ pc' = [pc EXCEPT ![p] = "d_logout"]
            /\ UNCHANGED <<frame, result>>
       ELSE Finish(p, Response(FALSE, "none", "undefined", "undefined"),
                   [NoFrame EXCEPT !.tenantId = frame[p].tenantId])
    /\ UNCHANGED <<sts, whatsConf, queue, messages, sessions, brokerSends,
                   isProcessing, skipped, calls, cin, received, cout, connVars>>

DisconnectLogout_IgnoreFailure(p) ==
    /\ pc[p] = "d_logout"
    /\ \E ok \in BOOLEAN :
         /\ pc' = [pc EXCEPT ![p] = "d_update"]
         /\ frame' = [frame EXCEPT ![p].ops = Issued(p, "disconnectSession", ok)]
         /\ UNCHANGED result
    /\ UNCHANGED <<sts, whatsConf, queue, messages, sessions, brokerSends,
                   isProcessing, skipped, calls, cin, received, cout, connVars>>

\* evolutionService.disconnectSession, whose error is thrown on.
DisconnectLogout(p) ==
    /\ pc[p] = "d_logout"
    /\ \E ok \in BOOLEAN :
         IF ok
         THEN /\ pc' = [pc EXCEPT ![p] = "d_update"]
              /\ frame' = [frame EXCEPT ![p].ops = Issued(p, "disconnectSession", TRUE)]
              /\ UNCHANGED result
         ELSE Finish(p, Response(FALSE, "none", "undefined", "undefined"),
                     [NoFrame EXCEPT !.tenantId = frame[p].tenantId,
                                     !.ops = Issued(p, "disconnectSession", FALSE)])
    /\ UNCHANGED <<sts, whatsConf, queue, messages, sessions, brokerSends,
                   isProcessing, skipped, calls, cin, received, cout, connVars>>

\* The row becomes DISCONNECTED and loses its QR code and token.
DisconnectUpdate(p) ==
    /\ pc[p] = "d_update"
    /\ sessions' = [sessions EXCEPT ![frame[p].tenantId].status = "DISCONNECTED"]
    /\ sessionData' = [sessionData EXCEPT ![frame[p].tenantId] = NoSessionData]
    /\ Finish(p, Response(TRUE, "none", "undefined", "undefined"),
              [NoFrame EXCEPT !.tenantId = frame[p].tenantId, !.ops = frame[p].ops])
    /\ UNCHANGED <<sts, whatsConf, queue, messages, brokerSends, isProcessing,
                   skipped, calls, cin, received, cout, sessionRows, instances, connection>>

\* ---------------------------------------- WhatsAppService.getSessionStatus
\* IWhatsAppSessionStatus, the object getSessionStatus returns.
StatusObject(connected, status, message, error, evolutionStatus, sessionToken) ==
    [connected |-> connected, status |-> status, message |-> message,
     error |-> error, evolutionStatus |-> evolutionStatus,
     sessionToken |-> sessionToken]

\* The object of the catch block.
ErrorStatus ==
    StatusObject(FALSE, "ERROR", "undefined", "Erro ao conectar com Evolution API",
                 "undefined", "undefined")

GsKeep(p, ops) == [NoFrame EXCEPT !.tenantId = frame[p].tenantId, !.ops = ops]

getSessionStatus(p, tenantId) ==
    /\ FirstFree(p)
    /\ Invoked
    /\ pc' = [pc EXCEPT ![p] = "g_find"]
    /\ frame' = [frame EXCEPT ![p] = [NoFrame EXCEPT !.tenantId = tenantId]]
    /\ result' = [result EXCEPT ![p] = NoResult]
    /\ UNCHANGED <<sts, whatsConf, queue, messages, sessions, brokerSends,
                   isProcessing, skipped, cin, received, cout, connVars>>

\* The session row is read; a tenant without row, or a row without API key,
\* is answered from the database alone.  A query that fails is caught.
GsFind(p) ==
    /\ pc[p] = "g_find"
    /\ LET t == frame[p].tenantId IN
       \E dbOk \in BOOLEAN :
         CASE ~dbOk -> Finish(p, ErrorStatus, GsKeep(p, <<>>))
           [] dbOk /\ sessions[t].status = "NONE" ->
                Finish(p, StatusObject(FALSE, "DISCONNECTED", "not found", "undefined",
                                       "undefined", "undefined"), GsKeep(p, <<>>))
           [] dbOk /\ sessions[t].status # "NONE" /\ ~sessions[t].evolutionApiKey ->
                Finish(p, StatusObject(FALSE, sessions[t].status, "no api key",
                                       "undefined", "undefined", "undefined"),
                       GsKeep(p, <<>>))
           [] OTHER ->
                /\ pc' = [pc EXCEPT ![p] = "g_state"]
                /\ frame' = [frame EXCEPT ![p].status = sessions[t].status,
                                          ![p].sessionToken = sessionData[t].sessionToken]
                /\ UNCHANGED result
    /\ UNCHANGED <<sts, whatsConf, queue, messages, sessions, brokerSends,
                   isProcessing, skipped, calls, cin, received, cout, connVars>>

\* evolutionService.getSessionStatus: the broker's state, or null on an error.
GsState(p) ==
    /\ pc[p] = "g_state"
    /\ \E state \in {"open", "null"} :
         frame' = [frame EXCEPT ![p].evolutionStatus =
                                     IF state = "null" THEN "undefined" ELSE state,
                                ![p].ops = Issued(p, "getSessionStatus", state # "null")]
    /\ pc' = [pc EXCEPT ![p] = "g_info"]
    /\ UNCHANGED <<sts, whatsConf, queue, messages, sessions, brokerSends,
                   isProcessing, skipped, result, calls, cin, received, cout, connVars>>

GsAnswer_FromBroker(p, token) ==
    StatusObject(frame[p].evolutionStatus = "open",
                 IF frame[p].evolutionStatus = "open" THEN "CONNECTED"
                 ELSE frame[p].status,
                 "undefined", "undefined", frame[p].evolutionStatus,
                 IF frame[p].sessionToken # "null" THEN frame[p].sessionToken
                 ELSE IF token # "null" THEN token ELSE "undefined")

\* The object of the normal return.
GsAnswer(p, token) ==
    StatusObject(frame[p].status = "CONNECTED", frame[p].status, "undefined",
                 "undefined", frame[p].evolutionStatus,
                 IF frame[p].sessionToken # "null" THEN frame[p].sessionToken
                 ELSE IF token # "null" THEN token ELSE "undefined")

\* evolutionService.getSessionInfo: the instance data (of which the token is
\* kept), or null on an error or when the broker lists no instance.
GsInfo(p) ==
    /\ pc[p] = "g_info"
    /\ \E ok \in BOOLEAN, token \in Tokens \cup {"null"} :
         /\ ~ok => token = "null"
         /\ IF frame[p].sessionToken = "null" /\ token # "null"
            THEN /\ pc' = [pc EXCEPT ![p] = "g_token"]
                 /\ frame' = [frame EXCEPT ![p].qrCode = token,
                                           ![p].ops = Issued(p, "getSessionInfo", ok)]
                 /\ UNCHANGED result
            ELSE Finish(p, GsAnswer(p, token), GsKeep(p, Issued(p, "getSessionInfo", ok)))
    /\ UNCHANGED <<sts, whatsConf, queue, messages, sessions, brokerSends,
                   isProcessing, skipped, calls, cin, received, cout, connVars>>

\* The token of the instance data is saved in a row that had none; an update
\* that fails is caught.
GsToken(p) ==
    /\ pc[p] = "g_token"
    /\ \E dbOk \in BOOLEAN :
         IF dbOk
         THEN /\ sessionData' = [sessionData EXCEPT
                                    ![frame[p].tenantId].sessionToken = frame[p].qrCode]
              /\ Finish(p, GsAnswer(p, frame[p].qrCode), GsKeep(p, frame[p].ops))
         ELSE /\ Finish(p, ErrorStatus, GsKeep(p, frame[p].ops))
              /\ UNCHANGED sessionData
    /\ UNCHANGED <<sts, whatsConf, queue, messages, sessions, brokerSends,
                   isProcessing, skipped, calls, cin, received, cout,
                   sessionRows, instances, connection>>


\* ------------------------------------------------ WhatsAppService webhooks
\* The text handleEvolutionMessageReceived extracts: message.conversation, or
\* else message.extendedTextMessage.text, or else "".
MessageTextOf(data) ==
    IF data.message.conversation # <<>> THEN data.message.conversation
    ELSE data.message.extendedText

MessageVerdict_NoGroupCheck(data) ==
    IF ~data.key.present \/ ~data.message.present THEN "incomplete"
    ELSE IF data.key.fromMe THEN "fromMe"
    ELSE IF Trim(MessageTextOf(data)) = <<>> THEN "empty"
    ELSE "accept"

\* The checks handleEvolutionMessageReceived makes before it stores anything.
MessageVerdict(data) ==
    IF ~data.key.present \/ ~data.message.present THEN "incomplete"
    ELSE IF data.key.fromMe THEN "fromMe"
    ELSE IF data.key.group THEN "group"
    ELSE IF Trim(MessageTextOf(data)) = <<>> THEN "empty"
    ELSE "accept"

\* processEvolutionWebhook reads event and data of the envelope.
WebhookFrame(tenantId, webhookData, entry) ==
    [NoFrame EXCEPT !.tenantId = tenantId, !.event = webhookData.event,
                    !.data = webhookData.data, !.entry = entry]

WebhookKeep(f) ==
    [NoFrame EXCEPT !.tenantId = f.tenantId, !.event = f.event, !.data = f.data,
                    !.entry = f.entry]

WebhookReturn(p) ==
    Finish(p, Response(TRUE, "none", "undefined", "undefined"), WebhookKeep(frame[p]))

\* processEvolutionWebhook up to its first await.
WebhookEnter(p, tenantId, webhookData, entry) ==
    /\ FirstFree(p)
    /\ Invoked
    /\ pc' = [pc EXCEPT ![p] = "w_find"]
    /\ frame' = [frame EXCEPT ![p] = WebhookFrame(tenantId, webhookData, entry)]
    /\ result' = [result EXCEPT ![p] = NoResult]
    /\ UNCHANGED <<sts, whatsConf, queue, messages, sessions, brokerSends,
                   isProcessing, skipped, cin, received, cout, connVars>>

processEvolutionWebhook(p, tenantId, webhookData) ==
    WebhookEnter(p, tenantId, webhookData, "processEvolutionWebhook")

processWebhook_NoDefault(p, tenantId, webhookData) ==
    WebhookEnter(p, tenantId,
                 [event |-> webhookData.event, instance |-> tenantId,
                  data |-> webhookData.data],
                 "processWebhook")

\* processWebhook builds the full envelope, with data || {}, and hands it to
\* processEvolutionWebhook.
processWebhook(p, tenantId, webhookData) ==
    WebhookEnter(p, tenantId,
                 [event |-> webhookData.event, instance |-> tenantId,
                  data |-> IF webhookData.data.present THEN webhookData.data
                           ELSE EmptyData],
                 "processWebhook")

\* The session lookup of processEvolutionWebhook, the switch on the event and
\* the handler of the event up to its first await.  Without a session row the
\* delivery ends; a handler that reads a field of an undefined data throws, and
\* its catch ends the delivery.
WebhookFind(p) ==
    LET f == frame[p]
        d == f.data
        goto(l) == /\ pc' = [pc EXCEPT ![p] = l]
                   /\ UNCHANGED <<frame, result>>
    IN  /\ pc[p] = "w_find"
        /\ IF sessions[f.tenantId].status = "NONE" \/ ~d.present
           THEN WebhookReturn(p)
           ELSE CASE f.event = "qrcode.updated" /\ d.qrcode # "null" -> goto("w_qr")
                  [] f.event = "connection.update" -> goto("w_connection")
                  [] f.event = "messages.upsert" /\ MessageVerdict(d) = "accept" ->
                       goto("w_store")
                  [] OTHER -> WebhookReturn(p)
        /\ UNCHANGED <<sts, whatsConf, queue, messages, sessions, brokerSends,
                       isProcessing, skipped, calls, cin, received, cout, connVars>>

\* handleEvolutionQRCodeUpdate: the update of the row.
WebhookQr(p) ==
    LET f == frame[p] IN
    /\ pc[p] = "w_qr"
    /\ sessionData' = [sessionData EXCEPT ![f.tenantId].qrCode = f.data.qrcode]
    /\ WebhookReturn(p)
    /\ UNCHANGED <<sts, whatsConf, queue, messages, sessions, brokerSends,
                   isProcessing, skipped, calls, cin, received, cout,
                   sessionRows, instances, connection>>

\* handleEvolutionConnectionUpdate: the update of the row.
WebhookConnection(p) ==
    LET f == frame[p]
        t == f.tenantId
    IN  /\ pc[p] = "w_connection"
        /\ sessions' = [sessions EXCEPT ![t].status = ConnectionStatus(f.data.state)]
        /\ sessionData' = [sessionData EXCEPT ![t] =
               IF f.data.state = "open"
               THEN [ConnectedData(f.data.user) EXCEPT
                        !.sessionToken = sessionData[t].sessionToken]
               ELSE [NoSessionData EXCEPT !.sessionToken = sessionData[t].sessionToken,
                                          !.qrCode = sessionData[t].qrCode]]
        /\ WebhookReturn(p)
        /\ UNCHANGED <<sts, whatsConf, queue, messages, brokerSends, isProcessing,
                       skipped, calls, cin, received, cout,
                       sessionRows, instances, connection>>

\* handleEvolutionMessageReceived: the received_messages row is created and
\* handleMessage is called with the tenant, the sender and the text.
WebhookStore(p) ==
    LET f == frame[p]
        text == MessageTextOf(f.data)
    IN  /\ pc[p] = "w_store"
        /\ received' = Append(received, [tenantId |-> f.tenantId,
                                         senderNumber |-> f.data.key.number,
                                         messageText |-> text])
        /\ HandlerEnter(p, f.tenantId, f.data.key.number, text)
        /\ UNCHANGED <<sts, whatsConf, queue, messages, sessions, brokerSends,
                       isProcessing, skipped, calls, cin, cout, connVars>>

\* ------------------------------------------------------- specifications
EnqueueInputs == {<<1, 1>>, <<4, 1>>}
Limits == {1, 2}

ConnectionEvent ==
    \E t \in Tenants, s \in {"open", "connecting", "close"} :
        handleEvolutionConnectionUpdate(t, s, KnownUser)

StartHandlerOf(tenants, texts) ==
    \E p \in Handlers, o \in tenants, n \in SenderNumbers, t \in texts :
        handleMessage(p, o, n, t)

StartHandler == StartHandlerOf(Tenants, ReplyTexts)

StartQueueOp ==
    \/ \E p \in Timers : Tick(p)
    \/ \E p \in Manuals, l \in Limits : processOnce(p, l)
    \/ \E p \in Manuals, l \in Limits : HttpProcessQueue(p, l)
    \/ \E e \in EnqueueInputs : enqueue(e[1], e[2])
    \/ \E p \in Items, a \in ScheduleIds : processQueueItem(p, a)
    \/ \E a \in ScheduleIds : cancelQueueItem(a)

HandlerStep(p) ==
    \/ HandlerFind(p)
    \/ HandlerLogReceived(p)
    \/ PcaUpdateStatus(p)
    \/ PcaGetTemplate(p)
    \/ PcaEnqueue(p)

SendStep(p) ==
    \/ SendMessageFind(p)
    \/ SendMessageCall(p)

PqiStep(p) ==
    \/ PqiSelect(p)
    \/ PqiValidate(p)
    \/ PqiValidationErrUpdate(p)
    \/ PqiValidationErrLog(p)
    \/ PqiSentUpdate(p)
    \/ PqiSentLog(p)
    \/ PqiSentConfirm(p)
    \/ PqiSendErrUpdate(p)
    \/ PqiSendErrLog(p)

BatchStep(p) ==
    \/ BatchSelect(p)
    \/ BatchDelay(p)

Step(p) ==
    HandlerStep(p) \/ SendStep(p) \/ PqiStep(p) \/ PqiMarkInvalid(p) \/ BatchStep(p)

\* The operations one at a time: an operation starts only when none is in
\* flight.
Quiet == \A p \in Procs : pc[p] = "idle"

NextSeq ==
    \/ Quiet /\ ConnectionEvent
    \/ Quiet /\ calls < SeqCalls /\ (StartHandler \/ StartQueueOp)
    \/ \E p \in Procs : Step(p)

SpecSeq == Init /\ [][NextSeq]_vars

\* handleMessage calls one at a time, each of whose database collaborators
\* may throw.
HandlerFault(p) ==
    \/ HandlerFindFails(p)
    \/ HandlerLogFails(p)
    \/ PcaUpdateStatusFails(p)
    \/ PcaGetTemplateFails(p)
    \/ PcaEnqueueFails(p)

NextFault ==
    \/ Quiet /\ ConnectionEvent
    \/ Quiet /\ calls < FaultCalls /\ StartHandler
    \/ \E p \in Handlers : HandlerStep(p) \/ SendStep(p) \/ PqiStep(p)
    \/ \E p \in Handlers : HandlerFault(p)

SpecFault == Init /\ [][NextFault]_vars

\* Webhook deliveries whose handleMessage runs interleave at their awaits.
NextRace ==
    \/ ConnectionEvent
    \/ calls < RaceCalls /\ StartHandlerOf(RaceTenants, RaceTexts)
    \/ \E p \in Handlers : HandlerStep(p) \/ SendStep(p) \/ PqiStep(p)

SpecRace == Init /\ [][NextRace]_vars

\* The delivery queue operations and the batch triggers, interleaved at
\* their awaits.
NextQueue ==
    \/ ConnectionEvent
    \/ calls < QueueCalls /\ StartQueueOp
    \/ \E p \in Batchers \cup Items :
           SendStep(p) \/ PqiStep(p) \/ PqiMarkInvalid(p) \/ BatchStep(p)

SpecQueue == Init /\ [][NextQueue]_vars

\* The same, with runs whose selection fails.
NextBatchFault ==
    \/ NextQueue
    \/ \E p \in Batchers : BatchSelectFails(p)

SpecBatchFault == Init /\ [][NextBatchFault]_vars

\* The queue operations with the timer firing for ever.  The event loop
\* resumes every call whose awaited promise has settled, and setInterval
\* keeps firing: each call's steps and the timer are weakly fair.
RunStep(p) == SendStep(p) \/ PqiStep(p) \/ PqiMarkInvalid(p) \/ BatchStep(p)

StartDrainOp ==
    \/ \E e \in EnqueueInputs : enqueue(e[1], e[2])
    \/ \E e \in EnqueueInputs : cancelQueueItem(e[1])

NextDrain ==
    \/ ConnectionEvent
    \/ calls < DrainCalls /\ StartDrainOp
    \/ Interval
    \/ \E p \in Timers : RunStep(p)

SpecDrain ==
    /\ Init
    /\ [][NextDrain]_vars
    /\ WF_vars(Interval)
    /\ \A p \in Timers : WF_vars(RunStep(p))

\* connectTenant, disconnectSession and the broker's connection and QR code
\* events, interleaved at their awaits.
QrEvent ==
    \E t \in Tenants : handleEvolutionQRCodeUpdate(t, "qr2")

ConnectStep(p) ==
    \/ ConnectFind(p)
    \/ ConnectCheck(p)
    \/ ConnectCreate(p)
    \/ ConnectConfigure(p)
    \/ ConnectWebhook(p)
    \/ ConnectUpsert(p)
    \/ ConnectToken(p)
    \/ ConnectQr(p)
    \/ ConnectSaveQr(p)

DisconnectStep(p) ==
    \/ DisconnectFind(p)
    \/ DisconnectLogout(p)
    \/ DisconnectUpdate(p)

StartSessionOp ==
    \/ \E p \in Connectors, t \in Tenants : connectTenant(p, t)
    \/ \E p \in Disconnectors, t \in Tenants : disconnectSession(p, t)

NextSession ==
    \/ ConnectionEvent
    \/ QrEvent
    \/ calls < SessionCalls /\ StartSessionOp
    \/ \E p \in Connectors : ConnectStep(p)
    \/ \E p \in Disconnectors : DisconnectStep(p)

SpecSession == Init /\ [][NextSession]_vars

\* Webhook deliveries one at a time, through either method.  The events: QR
\* codes, connection changes, received messages with and without key and
\* body, and an event of another kind.
MessageKeys ==
    {NoKey} \cup {[present |-> TRUE, fromMe |-> m, group |-> g, number |-> Str13] :
                     m \in BOOLEAN, g \in BOOLEAN}
MessageBodies ==
    {NoMessage} \cup {[present |-> TRUE, conversation |-> c, extendedText |-> e] :
                         c \in {<<>>, <<"1">>, <<" ">>}, e \in {<<>>, <<"2">>}}
WebhookEvents ==
    {[event |-> "qrcode.updated", data |-> [EmptyData EXCEPT !.qrcode = q]] :
        q \in {"null", "qr2"}}
    \cup {[event |-> "connection.update",
           data |-> [EmptyData EXCEPT !.state = c, !.user = KnownUser]] :
             c \in {"open", "connecting", "close"}}
    \cup {[event |-> "connection.update", data |-> EmptyData]}
    \cup {[event |-> "messages.upsert",
           data |-> [EmptyData EXCEPT !.key = k, !.message = m]] :
             k \in MessageKeys, m \in MessageBodies}
    \cup {[event |-> "presence.update", data |-> EmptyData]}

\* The envelopes: the full one has a data object, the minimal one may have none.
FullEnvelope(tenantId, e) ==
    [event |-> e.event, instance |-> tenantId, data |-> e.data]
MinimalEnvelopes ==
    WebhookEvents \cup {[event |-> e.event, data |-> NoData] : e \in WebhookEvents}

WebhookStep(p) ==
    \/ WebhookFind(p)
    \/ WebhookQr(p)
    \/ WebhookConnection(p)
    \/ WebhookStore(p)

StartWebhook ==
    \/ \E p \in Handlers, t \in Tenants, e \in WebhookEvents :
           processEvolutionWebhook(p, t, FullEnvelope(t, e))
    \/ \E p \in Handlers, t \in Tenants, w \in MinimalEnvelopes :
           processWebhook(p, t, w)

NextWebhook ==
    \/ Quiet /\ calls < WebhookCalls /\ StartWebhook
    \/ \E p \in Handlers : WebhookStep(p)
    \/ \E p \in Handlers : HandlerStep(p) \/ SendStep(p) \/ PqiStep(p)

SpecWebhook == Init /\ [][NextWebhook]_vars

\* connectTenant calls, connection events and replies of tenant 1's patient
\* (a 1, which is confirmed, enqueued and processed at once, and a 9, which
\* is answered with the clarification), interleaved at their awaits.
StartReconnectOp ==
    \/ \E p \in Connectors, t \in Tenants : connectTenant(p, t)
    \/ \E p \in Handlers : handleMessage(p, 1, Str13, <<"1">>)
    \/ \E p \in Handlers : handleMessage(p, 1, Str13, <<"9">>)

NextReconnect ==
    \/ ConnectionEvent
    \/ calls < ReconnectCalls /\ StartReconnectOp
    \/ \E p \in Connectors : ConnectStep(p)
    \/ \E p \in Handlers : HandlerStep(p) \/ SendStep(p) \/ PqiStep(p)

SpecReconnect == Init /\ [][NextReconnect]_vars

\* The session lifecycle: disconnect, status retrieval and the broker's
\* connection and QR events, for tenant 1 (CONNECTED) and tenant 2, which has
\* no row or a row left without API key.
KeylessSession == [status |-> "DISCONNECTED", evolutionApiKey |-> FALSE]

InitLifecycle ==
    /\ \E second \in {NoSession, KeylessSession} : InitOf(second)
    /\ cin = <<>>
    /\ cout = NoClass

ConnectionStates == {"open", "connecting", "close", "refused"}

AnyConnectionEvent ==
    \E t \in Tenants, s \in ConnectionStates, u \in Users :
        handleEvolutionConnectionUpdate(t, s, u)

GsStep(p) ==
    \/ GsFind(p)
    \/ GsState(p)
    \/ GsInfo(p)
    \/ GsToken(p)

StartLifecycleOp ==
    \/ \E p \in Disconnectors, t \in Tenants : disconnectSession(p, t)
    \/ \E p \in StatusReaders, t \in Tenants : getSessionStatus(p, t)

NextLifecycle ==
    \/ AnyConnectionEvent
    \/ QrEvent
    \/ calls < LifecycleCalls /\ StartLifecycleOp
    \/ \E p \in Disconnectors : DisconnectStep(p)
    \/ \E p \in StatusReaders : GsStep(p)

SpecLifecycle == InitLifecycle /\ [][NextLifecycle]_vars

\* The reply classifier on every text up to MaxTextLen.
InitClassify ==
    /\ InitCore
    /\ cin \in AllTexts
    /\ cout = NoClass

Classify ==
    /\ cout = NoClass
    /\ cout' = ClassifyReply(cin)
    /\ UNCHANGED <<sts, whatsConf, queue, messages, sessions, brokerSends,
                   isProcessing, skipped, pc, frame, result, calls, cin, received, connVars>>

SpecClassify == InitClassify /\ [][Classify]_vars

\* formatPhoneForWhatsApp on the written forms of a national number: area
\* code and eight-digit subscriber number, with or without the country code
\* 55 and the mobile prefix 9, plain, punctuated or with a leading zero.
AreaCodes == {<<"1", "1">>, <<"2", "1">>, <<"5", "5">>}
LastDigits == <<"1", "2", "3", "4", "5">>
Subscribers == {<<"8", "8", "8", "8", "7", "7", "7", LastDigits[k]>> : k \in 1..MaxSubscribers}
Styles == {"plain", "punctuated", "zero"}

PhoneInputs ==
    [ddd : AreaCodes, subscriber : Subscribers, country : BOOLEAN,
     ninth : BOOLEAN, style : Styles]

PhoneText(i) ==
    LET cc == IF i.country THEN <<"5", "5">> ELSE <<>>
        nine == IF i.ninth THEN <<"9">> ELSE <<>>
    IN  CASE i.style = "plain" -> cc \o i.ddd \o nine \o i.subscriber
          [] i.style = "zero" -> <<"0">> \o cc \o i.ddd \o nine \o i.subscriber
          [] OTHER ->
               (IF i.country THEN <<"+", "5", "5", " ">> ELSE <<>>)
               \o <<"(">> \o i.ddd \o <<")", " ">> \o nine
               \o SubSeq(i.subscriber, 1, 4) \o <<"-">> \o SubSeq(i.subscriber, 5, 8)

InitPhone ==
    /\ InitCore
    /\ cin \in PhoneInputs
    /\ cout = NoClass

FormatPhone ==
    /\ calls = 0
    /\ calls' = 1
    /\ cout' = formatPhoneForWhatsApp(PhoneText(cin))
    /\ UNCHANGED <<sts, whatsConf, queue, messages, sessions, brokerSends,
                   isProcessing, skipped, pc, frame, result, cin, received, connVars>>

SpecPhone == InitPhone /\ [][FormatPhone]_vars

\* Runs of the phone condition alone: inbound numbers with and without the
\* country code and the ninth digit, and stored phones as plain digits, with
\* brackets and hyphen, with dots, with a second number after a slash, and
\* empty.
InboundNumbers ==
    {Str13, Str12,
     <<"1", "1", "9", "9", "9", "9", "9", "8", "8", "8", "8">>,
     <<"2", "1", "8", "8", "8", "8", "7", "7", "7", "7">>}
StoredTels ==
    {<<>>, Tel1Fmt, Tel2Fmt,
     <<"1", "1", "9", "9", "9", "9", "9", "8", "8", "8", "8">>,
     <<"1", "1", ".", "9", "9", "9", "9", "9", ".", "8", "8", "8", "8">>,
     <<"8", "8", "8", "8", "7", "7", "7", "7", "/", "3", "3", "3", "3", "4", "4", "4", "4">>}
MatchInputs == [number : InboundNumbers, tel1 : StoredTels, tel2 : StoredTels]

InitMatch ==
    /\ InitCore
    /\ cin \in MatchInputs
    /\ cout = NoClass

MatchPhone ==
    /\ calls = 0
    /\ calls' = 1
    /\ cout' = TelsMatch(cin.number, cin.tel1, cin.tel2)
    /\ UNCHANGED <<sts, whatsConf, queue, messages, sessions, brokerSends,
                   isProcessing, skipped, pc, frame, result, cin, received, connVars>>

SpecMatch == InitMatch /\ [][MatchPhone]_vars

\* ================================================================ claims
Terminal == {6, 7}

\* The step is taken by the handleMessage call of slot p and ends it.
Returns(p) == pc[p] # "idle" /\ pc'[p] = "idle"

HasNonDigit(s) == \E i \in 1..Len(s) : s[i] \notin Digits

\* C1: with the operations executed one at a time, an appointment whose
\* status is 6 or 7 keeps that status in every later step, and handleMessage
\* neither selects it again nor reaches its log, status write or enqueue with
\* an appointment that is already 6 or 7 - so the only queue row a handler
\* adds for it belongs to the call that made it terminal.
C1_TerminalIsFinal ==
    /\ [](\A p \in Handlers :
            pc[p] \in {"h_log", "pca_update"} => sts[frame[p].schedule] \notin Terminal)
    /\ [][\A a \in ScheduleIds : sts[a] \in Terminal =>
            /\ sts'[a] = sts[a]
            /\ \A p \in Handlers :
                 (pc'[p] # "idle" /\ frame'[p].schedule = a) => frame[p].schedule = a
            /\ \A p \in Handlers :
                 (pc[p] = "idle" \/ frame[p].schedule # a) =>
                    Len(queue') = Len(queue)
                    \/ queue'[Len(queue')].schedule_id # a
                    \/ pc'[p] = pc[p]]_vars

\* C1 witness: both appointments of the sender are terminal and a later "1" of
\* that sender has returned without touching either.
C1_Witness ==
    /\ sts[1] = 6
    /\ sts[2] = 7
    /\ \E p \in Handlers :
         /\ pc[p] = "idle"
         /\ frame[p].ownerId = 1
         /\ frame[p].senderNumber = Str13
         /\ frame[p].action = "confirm"
         /\ frame[p].schedule = 0
         /\ result[p].action = "ignored"

\* C3: at most one scheduled run is in flight, it holds the flag, and a timer
\* tick that fires while the flag is held starts nothing: it leaves the
\* queue, the log, the broker and every slot as they are.
C3_OneScheduledRun ==
    /\ [](Cardinality({p \in Timers : pc[p] # "idle"}) <= 1)
    /\ []((\E p \in Timers : pc[p] # "idle") => isProcessing)
    /\ [][isProcessing =>
            /\ \A p \in Timers : pc[p] = "idle" => pc'[p] = "idle"
            /\ (\E p \in Timers : Tick(p)) =>
                 UNCHANGED <<queue, messages, brokerSends, sts, whatsConf, pc,
                             frame, isProcessing>>]_vars

\* C3 witness: a tick was skipped while the first scheduled run was still
\* working on a selected appointment.
C3_Witness ==
    /\ skipped > 0
    /\ pc["t1"] \notin {"idle", "b_select"}
    /\ pc["t2"] = "idle"

\* C9: a reply whose trimmed text has a non-digit character returns at once
\* with action ignored and success, and changes no appointment, queue row,
\* log row or broker call.
C9_NonNumericIgnored ==
    [][\A p \in Handlers, o \in Tenants, n \in SenderNumbers, t \in ReplyTexts :
         (handleMessage(p, o, n, t) /\ HasNonDigit(Trim(t))) =>
            /\ pc'[p] = "idle"
            /\ result'[p] = Response(TRUE, "ignored", "undefined", "undefined")
            /\ UNCHANGED <<sts, whatsConf, queue, messages, brokerSends>>]_vars

\* C9 witness: a call classified as ignore has returned ignored.
C9_Witness ==
    \E p \in Handlers :
        /\ pc[p] = "idle"
        /\ frame[p].action = "ignore"
        /\ result[p] = Response(TRUE, "ignored", "undefined", "undefined")

\* cin is core with only whitespace before and after it.
Surrounds(text, core) ==
    \E i \in 1..(Len(text) + 1) :
        /\ i + Len(core) - 1 <= Len(text)
        /\ SubSeq(text, i, i + Len(core) - 1) = core
        /\ \A k \in 1..Len(text) :
             (k < i \/ k > i + Len(core) - 1) => text[k] \in Whitespace

\* The trimmed text is a non-empty run of digits.
DigitsSurrounded(text) ==
    \E i \in 1..Len(text), j \in 1..Len(text) :
        /\ i <= j
        /\ \A k \in 1..Len(text) :
             IF i <= k /\ k <= j THEN text[k] \in Digits ELSE text[k] \in Whitespace

\* C10: the classification is one of the four classes, decided by the trimmed
\* text alone: "1" -> confirm / 6 / confirmar, "2" -> reschedule / 7 /
\* reagendar, any other run of digits -> fallback, anything else -> ignore;
\* whitespace around "1" or "2" does not change the class.
C10_ClassificationTotal ==
    cout # NoClass =>
        /\ cout.action \in {"confirm", "reschedule", "fallback", "ignore"}
        /\ cout = IF Surrounds(cin, <<"1">>) THEN Class("confirm", "confirmar", 6, TRUE)
                  ELSE IF Surrounds(cin, <<"2">>) THEN Class("reschedule", "reagendar", 7, TRUE)
                  ELSE IF DigitsSurrounded(cin) THEN Class("fallback", "", 0, TRUE)
                  ELSE Class("ignore", "", 0, cin # <<>>)

\* C10 witness: " 1 " was classified as confirm.
C10_Witness ==
    /\ cin = <<" ", "1", " ">>
    /\ cout = Class("confirm", "confirmar", 6, TRUE)

Settled == {"Enviada", "Cancelada", "Erro"}

\* C2: a queue row only ever goes from Aguardando to Enviada, Cancelada or
\* Erro; a row that is Enviada, Cancelada or Erro never changes status again,
\* whatever the interleaving of processQueueItem, processQueue and
\* cancelQueueItem.
C2_QueueStatusMonotonic ==
    [][\A i \in 1..Len(queue) :
         queue'[i].status # queue[i].status =>
            /\ queue[i].status = "Aguardando"
            /\ queue'[i].status \in Settled]_vars

\* C4: an on-demand batch trigger issued while a scheduled run is in flight
\* fails with an error and starts no run of its own.
C4_ManualTriggerRejected ==
    [][\A p \in Manuals :
         (/\ \E q \in Timers : pc[q] # "idle"
          /\ \E l \in Limits : processOnce(p, l) \/ HttpProcessQueue(p, l)) =>
            /\ pc'[p] = "idle"
            /\ ~result'[p].success
            /\ UNCHANGED <<queue, messages, brokerSends>>]_vars

\* The appointments of the tenant whose patient's phone matches the sender.
Correlated(ownerId, phoneNumber) ==
    {a \in ScheduleIds :
        /\ Schedules[a].owner = ownerId
        /\ Schedules[a].patient \in DOMAIN Patients
        /\ PhoneMatches(phoneNumber, Schedules[a].patient)}

AllTerminal(ownerId, phoneNumber) ==
    /\ Correlated(ownerId, phoneNumber) # {}
    /\ \A a \in Correlated(ownerId, phoneNumber) : sts[a] \in Terminal

\* The frame of the call of slot p that takes the step: the one it starts
\* with, or the one it is running on.
Running(p) == IF pc[p] = "idle" THEN frame'[p] ELSE frame[p]

\* Slot p takes the step.
Steps(p) == pc'[p] # pc[p] \/ frame'[p] # frame[p] \/ result'[p] # result[p]

\* C5: when every appointment correlated with the sender is already 6 or 7,
\* each step of a handleMessage call for that sender leaves the statuses, the
\* queue and the broker untouched, and the call returns action ignored, for
\* every reply text.
C5_TerminalAlwaysIgnored ==
    [][\A p \in Handlers :
         (/\ Steps(p)
          /\ Running(p).schedule = 0
          /\ AllTerminal(Running(p).ownerId, Running(p).senderNumber)) =>
            /\ UNCHANGED <<sts, queue, brokerSends>>
            /\ pc'[p] = "idle" => result'[p].action = "ignored"]_vars

\* C6: the lookup is the only guard.  A call that has passed it writes its
\* status whatever the appointment's status has become meanwhile, and adds
\* its own queue row whatever rows the appointment already has; so two calls
\* that both passed the lookup write the status twice and enqueue two rows.
C6_CheckThenWriteRace ==
    [][\A p \in Handlers :
         /\ (pc[p] = "pca_update" /\ pc'[p] # pc[p]) =>
               /\ sts'[frame[p].schedule] = frame[p].statusToSet
               /\ pc'[p] = "pca_template"
         /\ (pc[p] = "pca_enqueue" /\ pc'[p] # pc[p]) =>
               /\ Len(queue') = Len(queue) + 1
               /\ queue'[Len(queue')].schedule_id = frame[p].schedule
               /\ queue'[Len(queue')].status = "Aguardando"]_vars

\* C6 witness: two calls were applied to the same appointment; it has two
\* received replies in the log, two queue rows, both sent.
C6_Witness ==
    /\ \A p \in Handlers :
         /\ pc[p] = "idle"
         /\ frame[p].schedule = 1
         /\ result[p] = Response(TRUE, ActionName(frame[p]), "true", "true")
    /\ frame["m1"].action # frame["m2"].action
    /\ Len(queue) = 2
    /\ \A i \in 1..2 : queue[i].schedule_id = 1 /\ queue[i].status = "Enviada"
    /\ CopiesIn(LogRow(1, "received", "Recebida"), messages) = 2
    /\ BagCardinality(brokerSends) = 2

\* C7: a "1" ("2") of a sender with a pending appointment, with an active
\* confirmar (reagendar) template and a Connected session, sets that
\* appointment to 6 (7), adds exactly one queue row, for that template, makes
\* exactly one broker send and returns confirmed (rescheduled).
C7_HappyPath ==
    [][\A p \in Handlers :
         LET f == frame[p]
             template == getByType(f.ownerId, f.templateType)
         IN  (/\ Returns(p)
              /\ f.action \in {"confirm", "reschedule"}
              /\ template # 0
              /\ SendSessionReady(f.ownerId)
              /\ \/ f.schedule # 0
                 \/ findPendingScheduleForNumber(f.ownerId, f.senderNumber) # {}) =>
                /\ f.schedule # 0
                /\ sts'[f.schedule] = (IF f.action = "confirm" THEN 6 ELSE 7)
                /\ Len(queue') = f.rows0 + 1
                /\ queue'[f.rows0 + 1].schedule_id = f.schedule
                /\ queue'[f.rows0 + 1].template_id = template
                /\ Templates[template].type =
                      (IF f.action = "confirm" THEN "confirmar" ELSE "reagendar")
                /\ BagCardinality(brokerSends') = f.sends0 + 1
                /\ result'[p].action =
                      (IF f.action = "confirm" THEN "confirmed" ELSE "rescheduled")]_vars

\* C7 witness: a "2" was applied to appointment 1 and its reagendar template
\* went out.
C7_Witness ==
    \E p \in Handlers :
        /\ pc[p] = "idle"
        /\ frame[p].action = "reschedule"
        /\ frame[p].schedule = 1
        /\ result[p] = Response(TRUE, "rescheduled", "true", "true")
        /\ sts[1] = 7
        /\ \E i \in 1..Len(queue) : queue[i].template_id = 2 /\ queue[i].status = "Enviada"

\* The step makes one broker call, and it carries the clarification text
\* with both options.
Clarifications ==
    LET texts == {m \in BagToSet(brokerSends') :
                     m.text.kind = "fallback" /\ m.text.options = <<"1", "2">>}
    IN  /\ BagCardinality(brokerSends') = BagCardinality(brokerSends) + 1
        /\ \E m \in texts : CopiesIn(m, brokerSends') = CopiesIn(m, brokerSends) + 1

\* C8 as stated: every call with an all-digit text other than 1 and 2 sends
\* one clarification naming 1 and 2, returns fallback and changes no
\* appointment status and no queue row.
C8_FallbackAlwaysSent ==
    [][\A p \in Handlers :
         (Steps(p) /\ Running(p).action = "fallback") =>
            /\ UNCHANGED <<sts, queue>>
            /\ pc'[p] = "idle" =>
                 /\ result'[p].action = "fallback"
                 /\ BagCardinality(brokerSends') = frame[p].sends0 + 1
                 /\ Clarifications]_vars

\* C8 amended: every call with an all-digit text other than 1 and 2 returns
\* fallback and changes no appointment status and no queue row; it makes one
\* broker send, of the clarification naming 1 and 2, when the tenant's
\* session is Connected, and none otherwise; it reports success exactly when
\* that send went through.
C8_FallbackSentWhenConnected ==
    [][\A p \in Handlers :
         (Steps(p) /\ Running(p).action = "fallback") =>
            /\ UNCHANGED <<sts, queue>>
            /\ pc'[p] = "idle" =>
                 /\ result'[p].action = "fallback"
                 /\ IF /\ sessions[frame[p].ownerId].status = "CONNECTED"
                       /\ sessions[frame[p].ownerId].evolutionApiKey
                    THEN /\ BagCardinality(brokerSends') = frame[p].sends0 + 1
                         /\ Clarifications
                         /\ result'[p].success <=>
                               \E m \in BagToSet(brokerSends') :
                                  /\ m.ok
                                  /\ CopiesIn(m, brokerSends') > CopiesIn(m, brokerSends)
                    ELSE /\ brokerSends' = brokerSends
                         /\ BagCardinality(brokerSends) = frame[p].sends0
                         /\ ~result'[p].success]_vars

\* C8 witness: a "9" was answered with the clarification.
C8_Witness ==
    \E p \in Handlers :
        /\ pc[p] = "idle"
        /\ frame[p].action = "fallback"
        /\ result[p] = Response(TRUE, "fallback", "undefined", "undefined")
        /\ \E m \in BagToSet(brokerSends) :
             m.ok /\ m.text.kind = "fallback" /\ m.text.options = <<"1", "2">>

\* C11: a processQueueItem call that finds a Waiting row of its appointment,
\* with the patient's phone and the template present, the tenant's session
\* Connected and no broker call of its own failing, makes one broker call and
\* returns normally with the row Enviada and its sent_at set, exactly one
\* wa_messages row added (direction sent, status Enviada) and the
\* appointment's whatsConf set.
C11_EnqueueProcessRoundTrip ==
    [][\A p \in Items :
         LET f == frame[p]
             owner == Schedules[f.scheduleId].owner
         IN  (/\ Returns(p)
              /\ f.item # 0 \/ WaitingOf(f.scheduleId) # {}
              /\ Schedules[f.scheduleId].patient \in DOMAIN Patients
              /\ PatientPhone(Schedules[f.scheduleId].patient) # <<>>
              /\ sessions[owner].status = "CONNECTED"
              /\ sessions[owner].evolutionApiKey
              /\ CountIn(brokerSends', IsFailedSend) = f.fails0) =>
                /\ f.item # 0
                /\ result'[p].success
                /\ queue'[f.item].status = "Enviada"
                /\ queue'[f.item].sent_at
                /\ queue'[f.item].schedule_id = f.scheduleId
                /\ BagCardinality(brokerSends') = f.sends0 + 1
                /\ messages' = f.msgs0 (+) SetToBag({LogRow(f.scheduleId, "sent", "Enviada")})
                /\ whatsConf'[f.scheduleId]]_vars

\* C11 witness: enqueue for appointment 1, then processQueueItem(1), and
\* nothing else: the row is Enviada, logged once and the appointment flagged.
C11_Witness ==
    /\ Len(queue) = 1
    /\ queue[1] = [QueueRow(1, 1, 1) EXCEPT !.status = "Enviada", !.sent_at = TRUE]
    /\ pc["pi"] = "idle"
    /\ result["pi"].success
    /\ \A p \in Procs \ Items : result[p] = NoResult
    /\ messages = SetToBag({LogRow(1, "sent", "Enviada")})
    /\ whatsConf[1]
    /\ BagCardinality(brokerSends) = 1

\* C12: a processQueueItem call that gets to the re-validation of step 6
\* while the tenant's session is not Connected takes no step that touches the
\* broker or whatsConf, and returns with the error: the row is Erro, exactly
\* one wa_messages row (direction sent, status Erro) was added, no broker call
\* was made and nothing was tried again.
C12_ValidationFailureIsError ==
    [][\A p \in Items :
         LET f == frame[p]
             owner == Schedules[f.scheduleId].owner
         IN  (/\ pc[p] # "idle"
              /\ Steps(p)
              /\ f.item # 0 \/ WaitingOf(f.scheduleId) # {}
              /\ Schedules[f.scheduleId].patient \in DOMAIN Patients
              /\ PatientPhone(Schedules[f.scheduleId].patient) # <<>>
              /\ sessions[owner].status # "CONNECTED") =>
                /\ UNCHANGED <<brokerSends, whatsConf>>
                /\ pc'[p] = "idle" =>
                     /\ f.item # 0
                     /\ ~result'[p].success
                     /\ queue'[f.item].status = "Erro"
                     /\ ~queue'[f.item].sent_at
                     /\ Len(queue') = f.rows0
                     /\ messages' = f.msgs0 (+) SetToBag({LogRow(f.scheduleId, "sent", "Erro")})
                     /\ BagCardinality(brokerSends') = f.sends0]_vars

\* C12 witness: the session was closed, a row was enqueued for appointment 1
\* and processQueueItem(1) has failed on it.
C12_Witness ==
    /\ sessions[1].status = "DISCONNECTED"
    /\ Len(queue) = 1
    /\ queue[1] = [QueueRow(1, 1, 1) EXCEPT !.status = "Erro"]
    /\ pc["pi"] = "idle"
    /\ calls = 2
    /\ \A p \in Procs \ Items : result[p] = NoResult
    /\ messages = SetToBag({LogRow(1, "sent", "Erro")})
    /\ brokerSends = EmptyBag
    /\ ~whatsConf[1]

\* C13: with the runs one after the other, a row that is Erro stays as it
\* is; a run only ever picks a row that is Aguardando, and the broker is
\* only called for a row that is Aguardando - so an appointment whose rows
\* are all Erro gets a further send only after a new row is enqueued.
C13_ErrorIsNotRetried ==
    [][/\ \A i \in 1..Len(queue) : queue[i].status = "Erro" => queue'[i] = queue[i]
       /\ \A p \in Procs :
            /\ (frame'[p].item # frame[p].item /\ frame'[p].item # 0) =>
                  queue[frame'[p].item].status = "Aguardando"
            /\ (pc[p] = "send_call" /\ frame[p].caller = "queue" /\ Steps(p)) =>
                  queue[frame[p].item].status = "Aguardando"]_vars

\* C13 witness: the only row, of appointment 1, is Erro after a failed
\* processQueueItem(1), and a second processQueueItem(1) has returned
\* normally without a further broker call.
C13_Witness ==
    /\ Len(queue) = 1
    /\ queue[1].schedule_id = 1
    /\ queue[1].status = "Erro"
    /\ pc["pi"] = "idle"
    /\ frame["pi"].scheduleId = 1
    /\ result["pi"].success
    /\ \A p \in Procs \ Items : result[p] = NoResult
    /\ BagCardinality(messages) = 1
    /\ calls = 3

\* C14: cancelQueueItem(a) turns exactly the Aguardando rows of appointment
\* a into Cancelada and leaves every other row, the appointments, the log,
\* the broker and every running call as they are; with no Aguardando row of
\* a it changes nothing and still returns normally.
C14_CancelFrame ==
    [][\A a \in ScheduleIds :
         cancelQueueItem(a) =>
            /\ Len(queue') = Len(queue)
            /\ \A i \in 1..Len(queue) :
                 IF queue[i].schedule_id = a /\ queue[i].status = "Aguardando"
                 THEN /\ queue'[i].status = "Cancelada"
                      /\ [queue'[i] EXCEPT !.status = "Aguardando"] = queue[i]
                 ELSE queue'[i] = queue[i]
            /\ (WaitingOf(a) = {}) => queue' = queue
            /\ UNCHANGED <<sts, whatsConf, messages, brokerSends, sessions,
                           isProcessing, pc, frame, result>>]_vars

\* C14 witness: appointment 1 has a row that was sent and a later row that
\* was cancelled.
C14_Witness ==
    \E i, j \in 1..Len(queue) :
        /\ queue[i].schedule_id = 1
        /\ queue[j].schedule_id = 1
        /\ queue[i].status = "Enviada"
        /\ queue[j].status = "Cancelada"

\* The positions of a processQueueItem call between its pick of a row and
\* its return.
PqiPositions ==
    {"pqi_invalid", "pqi_validate", "pqi_verr_upd", "pqi_verr_log", "send_find",
     "send_call", "pqi_sent_upd", "pqi_sent_log", "pqi_sent_conf", "pqi_serr_upd",
     "pqi_serr_log"}

\* Row i is the row some running processQueueItem call has picked.
InFlight(i) ==
    \E p \in Procs :
        pc[p] \in PqiPositions /\ frame[p].caller = "queue" /\ frame[p].item = i

\* C15: cancellation is cooperative.  A Cancelada row that no running call
\* has already picked is never picked afterwards and stays as it is (the
\* broker is only ever called for a picked row, so it is never sent); a
\* cancel moves no running call, and a call that has picked a row goes on to
\* its broker call whatever the row's status has become.
C15_CancelIsCooperative ==
    [][/\ \A i \in 1..Len(queue) :
            (queue[i].status = "Cancelada" /\ ~InFlight(i)) =>
               /\ queue'[i] = queue[i]
               /\ ~InFlight(i)'
       /\ \A p \in Procs :
            (frame'[p].item # frame[p].item /\ frame'[p].item # 0) =>
               queue[frame'[p].item].status = "Aguardando"
       /\ \A a \in ScheduleIds : cancelQueueItem(a) => UNCHANGED <<pc, frame, result>>
       /\ \A p \in Procs :
            (pc[p] = "send_call" /\ frame[p].caller = "queue" /\ Steps(p)) =>
               /\ BagCardinality(brokerSends') = BagCardinality(brokerSends) + 1
               /\ \E m \in BagToSet(brokerSends') :
                    /\ m.text = processTemplate(queue[frame[p].item].template_id,
                                                queue[frame[p].item].schedule_id)
                    /\ CopiesIn(m, brokerSends') = CopiesIn(m, brokerSends) + 1]_vars

\* C15 witness: the row was cancelled after processQueueItem had picked it,
\* and its message went out all the same.
C15_Witness ==
    \E p \in Items :
        /\ pc[p] = "pqi_sent_upd"
        /\ queue[frame[p].item].status = "Cancelada"
        /\ BagCardinality(brokerSends) = 1

\* C16: a processQueue run selects at most limit distinct appointments that
\* have an Aguardando row and calls processQueueItem for each of them in the
\* order of the selection: whatever a call returns or throws, the run moves on
\* to the next selected appointment, it ends only after the last one, and it
\* ends normally.
C16_BatchContinuesPastFailures ==
    [][\A p \in Batchers :
         /\ (pc[p] = "b_select" /\ Steps(p)) =>
              LET b == IF pc'[p] = "idle" THEN <<>> ELSE frame'[p].batch IN
              /\ Len(b) <= frame[p].limit
              /\ \A j, k \in 1..Len(b) : b[j] = b[k] => j = k
              /\ \A k \in 1..Len(b) : WaitingOf(b[k]) # {}
              /\ \A a \in ScheduleIds :
                   WaitingOf(a) # {} =>
                      \/ \E k \in 1..Len(b) : b[k] = a
                      \/ Len(b) = frame[p].limit
              /\ pc'[p] = "idle" => result'[p].success
              /\ pc'[p] # "idle" =>
                   pc'[p] = "pqi_select" /\ frame'[p].scheduleId = b[1]
         /\ (pc[p] \notin {"idle", "b_select"} /\ Steps(p)) =>
              /\ frame[p].batch # <<>>
              /\ frame[p].scheduleId = Head(frame[p].batch)
              /\ IF pc'[p] = "idle"
                 THEN Len(frame[p].batch) = 1 /\ result'[p].success
                 ELSE \/ frame'[p].batch = frame[p].batch
                      \/ /\ frame'[p].batch = Tail(frame[p].batch)
                         /\ pc'[p] = "pqi_select"
                         /\ frame'[p].scheduleId = Head(frame'[p].batch)]_vars

\* C16 witness: a run selected appointments 4 and 1; processQueueItem(4)
\* failed (no phone), appointment 1 was sent all the same and the run ended
\* normally.
C16_Witness ==
    /\ Len(queue) = 2
    /\ queue[1].schedule_id = 4 /\ queue[1].status = "Erro"
    /\ queue[2].schedule_id = 1 /\ queue[2].status = "Enviada"
    /\ calls = 3
    /\ \A p \in Procs : pc[p] = "idle"
    /\ \E p \in Batchers : result[p].success

\* The broker requests `name` in the sequence ops.
OpsNamed(ops, name) == {k \in 1..Len(ops) : ops[k].op = name}

\* C17: across connect, disconnect, connection and QR events every tenant has
\* at most one session row, and none exactly when it has no session; the
\* upsert of connectTenant leaves a tenant that had a row with that one row,
\* now CONNECTING, and gives a tenant without row exactly one.
C17_OneSessionPerTenant ==
    /\ \A t \in Tenants : sessionRows[t] = IF sessions[t].status = "NONE" THEN 0 ELSE 1
    /\ [][/\ \A t \in Tenants :
                sessionRows'[t] = IF sessions'[t].status = "NONE" THEN 0 ELSE 1
          /\ \A p \in Connectors :
                (pc[p] = "c_upsert" /\ Steps(p)) =>
                   /\ sessionRows'[frame[p].tenantId] = 1
                   /\ sessions'[frame[p].tenantId].status = "CONNECTING"
                   /\ \A t \in Tenants \ {frame[p].tenantId} :
                         sessionRows'[t] = sessionRows[t]]_vars

\* C17 witness: tenant 2, which had no row, is connected a second time; the
\* second call found the instance the first one created, has done its upsert,
\* and tenant 2 still has one row.
C17_Witness ==
    /\ calls = 2
    /\ \E p \in Connectors :
         /\ pc[p] = "c_token"
         /\ frame[p].tenantId = 2
         /\ frame[p].sessionExistsInEvolution
         /\ frame[p].existingSession
    /\ sessionRows[2] = 1
    /\ sessions[2].status = "CONNECTING"

\* C18: in a connectTenant call whose checkSession found no instance, the
\* session rows are left alone while the instance is created and configured;
\* the upsert is done after exactly checkSession, createSession (succeeded),
\* configureSession (succeeded) and configureWebhook (attempted), in that
\* order, and sets the row to CONNECTING; the call then returns status
\* CONNECTING with the QR payload getQRCode returned, requested last.
C18_ConnectWithoutInstance ==
    [][\A p \in Connectors :
         (Steps(p) /\ pc[p] # "idle" /\ ~frame[p].sessionExistsInEvolution) =>
            /\ pc[p] \in {"c_create", "c_configure", "c_webhook"} =>
                  UNCHANGED <<sessions, sessionRows, sessionData>>
            /\ pc[p] = "c_upsert" =>
                  /\ \E ok \in BOOLEAN :
                        frame[p].ops = <<Op("checkSession", TRUE),
                                         Op("createSession", TRUE),
                                         Op("configureSession", TRUE),
                                         Op("configureWebhook", ok)>>
                  /\ sessions'[frame[p].tenantId].status = "CONNECTING"
            /\ (pc[p] \in {"c_qr", "c_saveqr"} /\ pc'[p] = "idle") =>
                  /\ connection'.ok
                  /\ connection'.status = "CONNECTING"
                  /\ Len(frame'[p].ops) = 6
                  /\ frame'[p].ops[6].op = "getQRCode"
                  /\ OpsNamed(frame'[p].ops, "createSession") = {2}
                  /\ IF frame'[p].ops[6].ok
                     THEN connection'.qrCode = frame[p].qrCode
                          /\ connection'.qrCode \in QrPayloads
                     ELSE connection'.qrCode = "null"]_vars

\* C18 witness: tenant 2 had neither instance nor session row; its first
\* connect created the instance and returned CONNECTING with a QR payload.
C18_Witness ==
    /\ calls = 1
    /\ \E p \in Connectors :
         /\ pc[p] = "idle"
         /\ frame[p].tenantId = 2
         /\ OpsNamed(frame[p].ops, "createSession") = {2}
         /\ OpsNamed(frame[p].ops, "configureSession") = {3}
         /\ OpsNamed(frame[p].ops, "configureWebhook") = {4}
    /\ 2 \in instances
    /\ connection.ok
    /\ connection.status = "CONNECTING"
    /\ connection.qrCode \in QrPayloads
    /\ sessions[2].status = "CONNECTING"
    /\ sessionData[2].qrCode = connection.qrCode

\* Among the broker requests ops, the webhook registration failed.
WebhookFailed(ops) == \E k \in 1..Len(ops) : ops[k] = Op("configureWebhook", FALSE)

\* C19: the step of connectTenant that registers the webhook goes on to the
\* upsert whether the registration succeeds or fails; a call whose
\* registration failed still sets the session row to CONNECTING in its upsert
\* and ends only by returning a result, never by throwing.
C19_WebhookFailureTolerated ==
    [][\A p \in Connectors :
         Steps(p) =>
            /\ pc[p] = "c_webhook" =>
                  /\ pc'[p] = "c_upsert"
                  /\ UNCHANGED connection
            /\ (pc[p] # "idle" /\ WebhookFailed(frame'[p].ops)) =>
                  /\ pc[p] = "c_upsert" =>
                        /\ sessions'[frame[p].tenantId].status = "CONNECTING"
                        /\ sessionRows'[frame[p].tenantId] = 1
                        /\ pc'[p] = "c_token"
                  /\ pc'[p] = "idle" =>
                        /\ pc[p] \in {"c_qr", "c_saveqr"}
                        /\ connection'.ok
                        /\ connection'.status = "CONNECTING"]_vars

\* C19 witness: a connect of tenant 2 whose webhook registration failed has
\* returned a result with a QR payload, and the session row is CONNECTING.
C19_Witness ==
    /\ \E p \in Connectors :
         /\ pc[p] = "idle"
         /\ frame[p].tenantId = 2
         /\ WebhookFailed(frame[p].ops)
    /\ connection.ok
    /\ connection.qrCode \in QrPayloads
    /\ sessions[2].status = "CONNECTING"
    /\ sessionRows[2] = 1

\* C20: a connectTenant call for a tenant whose session row was CONNECTED
\* when the call was made issues no getQRCode request and returns no QR
\* payload.
C20_NoQrWhenConnected ==
    [][\A p \in Connectors :
         (Steps(p) /\ pc[p] # "idle" /\ frame[p].status0 = "CONNECTED") =>
            /\ OpsNamed(frame'[p].ops, "getQRCode") = {}
            /\ (pc'[p] = "idle" /\ connection'.ok) => connection'.qrCode = "null"]_vars

\* The tables and the broker side, without the call slots.
stored == <<sts, whatsConf, queue, messages, sessions, brokerSends,
            sessionRows, sessionData, instances>>

\* C21: a disconnectSession call for a tenant without session row, or with a
\* row without API key, fails at the lookup, having issued no broker request
\* and changed nothing; for a row with API key it goes on to the broker
\* logout, and after a logout that succeeded the row is DISCONNECTED with
\* phone number, profile name, QR code, token and connect time cleared and
\* the call succeeds; a logout that failed fails the call and changes nothing.
C21_Disconnect ==
    [][\A p \in Disconnectors :
         LET t == frame[p].tenantId IN
         Steps(p) =>
            /\ pc[p] = "d_find" =>
                 IF sessions[t].status = "NONE" \/ ~sessions[t].evolutionApiKey
                 THEN /\ pc'[p] = "idle"
                      /\ ~result'[p].success
                      /\ frame'[p].ops = <<>>
                      /\ UNCHANGED stored
                 ELSE /\ pc'[p] = "d_logout"
                      /\ UNCHANGED stored
            /\ pc[p] = "d_logout" =>
                 /\ UNCHANGED stored
                 /\ \E ok \in BOOLEAN :
                      /\ frame'[p].ops = <<Op("disconnectSession", ok)>>
                      /\ IF ok THEN pc'[p] = "d_update"
                         ELSE pc'[p] = "idle" /\ ~result'[p].success
            /\ pc[p] = "d_update" =>
                 /\ frame[p].ops = <<Op("disconnectSession", TRUE)>>
                 /\ sessions'[t].status = "DISCONNECTED"
                 /\ sessionData'[t] = NoSessionData
                 /\ sessionRows'[t] = 1
                 /\ \A u \in Tenants \ {t} :
                       sessions'[u] = sessions[u] /\ sessionData'[u] = sessionData[u]
                 /\ pc'[p] = "idle"
                 /\ result'[p].success]_vars

\* C21 witness: tenant 1, connected with phone number and profile name, has
\* been disconnected and its row is cleared; the disconnect of tenant 2,
\* whose row has no API key, has then failed without a broker request and
\* left that row as it was.
C21_Witness ==
    /\ calls = 2
    /\ \E p \in Disconnectors :
         /\ pc[p] = "idle"
         /\ frame[p].tenantId = 2
         /\ frame[p].ops = <<>>
         /\ ~result[p].success
    /\ sessions[2] = KeylessSession
    /\ sessionRows[2] = 1
    /\ sessions[1].status = "DISCONNECTED"
    /\ sessionData[1] = NoSessionData

\* The stored status of a session row is never ERROR (holds in SpecSession
\* and SpecLifecycle): only the object getSessionStatus returns can say so.
StoredStatusNeverError == \A t \in Tenants : sessions[t].status # "ERROR"

\* C22: whenever the session row of a tenant is CONNECTING, CONNECTED or
\* DISCONNECTED, some step of the session lifecycle can take it to ERROR.
C22_ErrorFromAnyStatus ==
    \A t \in Tenants :
        sessions[t].status \in {"CONNECTING", "CONNECTED", "DISCONNECTED"} =>
            ENABLED (NextLifecycle /\ sessions'[t].status = "ERROR")

\* Among the broker requests ops, one failed.
BrokerFailed(ops) == \E k \in 1..Len(ops) : ~ops[k].ok

\* C23: a getSessionStatus call always ends by returning an object, and when
\* one of its broker requests failed the object has status ERROR, connected
\* false and the generic error message.
C23_BrokerFailureIsError ==
    [][\A p \in StatusReaders :
         (Steps(p) /\ pc[p] # "idle" /\ pc'[p] = "idle") =>
            /\ result'[p].status \in {"CONNECTING", "CONNECTED", "DISCONNECTED", "ERROR"}
            /\ BrokerFailed(frame'[p].ops) =>
                  /\ result'[p].status = "ERROR"
                  /\ ~result'[p].connected
                  /\ result'[p].error = ErrorStatus.error]_vars

\* C24: with the operations executed one at a time, when handleMessage has
\* set the appointment to 6 or 7 and the tenant has no active template of the
\* type of the reply, the call ends at the template lookup: the status stays
\* at 6 or 7, no queue row was created and no broker send made since the call
\* started, and the result is success false, statusUpdated true, templateSent
\* false.
C24_MissingTemplate ==
    [][\A p \in Handlers :
         LET f == frame[p] IN
         (pc[p] = "pca_template" /\ Steps(p)
            /\ getByType(f.ownerId, f.templateType) = 0) =>
            /\ f.statusToSet \in {6, 7}
            /\ sts[f.schedule] = f.statusToSet
            /\ sts' = sts
            /\ queue' = queue /\ Len(queue) = f.rows0
            /\ brokerSends' = brokerSends
            /\ BagCardinality(brokerSends) = f.sends0
            /\ pc'[p] = "idle"
            /\ result'[p] = Response(FALSE, ActionName(f), "true", "false")]_vars

\* C24 witness: the patient of appointment 3 answered 2 to tenant 2, which
\* has no reagendar template: the appointment is 7, nothing is queued or
\* sent, and the result says statusUpdated true, templateSent false.
C24_Witness ==
    /\ \E p \in Handlers :
         /\ pc[p] = "idle"
         /\ frame[p].ownerId = 2
         /\ frame[p].schedule = 3
         /\ result[p] = Response(FALSE, "rescheduled", "true", "false")
    /\ calls = 1
    /\ sts[3] = 7
    /\ queue = <<>>
    /\ brokerSends = EmptyBag

\* The number of broker sends that succeeded.
OkSends(b) == BagCardinality(b) - CountIn(b, IsFailedSend)

\* C25: with the operations executed one at a time, a handleMessage call that
\* has written the appointment's status returns statusUpdated true, and
\* templateSent true exactly when a broker send succeeded during the call.
C25_PartialSuccessReported ==
    [][\A p \in Handlers :
         LET f == frame[p] IN
         (Returns(p) /\ f.schedule # 0 /\ pc[p] \notin {"h_log", "pca_update"}) =>
            /\ sts'[f.schedule] = f.statusToSet
            /\ result'[p].statusUpdated = "true"
            /\ result'[p].templateSent = "true" <=>
                  OkSends(brokerSends') > f.sends0 - f.fails0]_vars

\* Every collaborator failure of handleMessage but that of the appointment
\* lookup ends the call, at once or after the error is recorded, with
\* success false (holds in SpecFault).
OtherFailuresReported ==
    [][\A p \in Handlers :
         /\ (HandlerLogFails(p) \/ PcaUpdateStatusFails(p) \/ PcaGetTemplateFails(p)
               \/ PcaEnqueueFails(p)) => pc'[p] = "idle" /\ ~result'[p].success
         /\ (Returns(p) /\ pc[p] \in {"pqi_verr_log", "pqi_serr_log"}) =>
               ~result'[p].success
         /\ (Returns(p) /\ frame[p].caller = "fallback"
               /\ OkSends(brokerSends') = OkSends(brokerSends)) =>
               ~result'[p].success]_vars

\* C26: every handleMessage call ends by returning a result, and a call that
\* ends because a collaborator failed (appointment lookup, log insert, status
\* update, template lookup, enqueue, immediate send, fallback send) returns
\* success false.
C26_FailureIsReported ==
    [][\A p \in Handlers :
         /\ HandlerFault(p) => pc'[p] = "idle" /\ ~result'[p].success
         /\ (Returns(p) /\ pc[p] \in {"pqi_verr_log", "pqi_serr_log"}) =>
               ~result'[p].success
         /\ (Returns(p) /\ frame[p].caller = "fallback"
               /\ OkSends(brokerSends') = OkSends(brokerSends)) =>
               ~result'[p].success]_vars

\* 55, area code, 9 and the subscriber number.
Canonical(i) == <<"5", "5">> \o i.ddd \o <<"9">> \o i.subscriber

\* Every written form but the one without both country code and mobile
\* prefix is formatted to the canonical form (holds in SpecPhone).
LongFormsCanonical ==
    (calls = 1 /\ (cin.country \/ cin.ninth)) => cout = Canonical(cin)

\* C27: the result of formatPhoneForWhatsApp for one written form of a
\* national number is the result for every other written form of it, with or
\* without country code, with or without the mobile prefix, in any style.
C27_SameNumberSameForm ==
    calls = 1 =>
        \A c \in BOOLEAN, n \in BOOLEAN, st \in Styles :
            formatPhoneForWhatsApp(
                PhoneText([cin EXCEPT !.country = c, !.ninth = n, !.style = st])) = cout

\* C28: a connection event for a tenant with a session row, whatever the
\* row's status, sets it to CONNECTED on open, CONNECTING on connecting and
\* DISCONNECTED on close; open also stores the phone number and profile name
\* of the event and a connect time and clears the QR code; the other two
\* leave the QR code alone.  Token, row count and the other tenant's row are
\* untouched.
C28_ConnectionEvent ==
    [][\A t \in Tenants, state \in {"open", "connecting", "close"}, u \in Users :
         handleEvolutionConnectionUpdate(t, state, u) =>
            /\ sessions[t].status \in {"CONNECTING", "CONNECTED", "DISCONNECTED"}
            /\ sessions'[t].status =
                  CASE state = "open" -> "CONNECTED"
                    [] state = "connecting" -> "CONNECTING"
                    [] state = "close" -> "DISCONNECTED"
            /\ state = "open" =>
                  /\ sessionData'[t].phoneNumber = u.id
                  /\ sessionData'[t].profileName = u.name
                  /\ sessionData'[t].connectedAt = "now"
                  /\ sessionData'[t].qrCode = "null"
            /\ state # "open" => sessionData'[t].qrCode = sessionData[t].qrCode
            /\ sessionData'[t].sessionToken = sessionData[t].sessionToken
            /\ sessions'[t].evolutionApiKey = sessions[t].evolutionApiKey
            /\ sessionRows' = sessionRows
            /\ \A o \in Tenants \ {t} :
                  sessions'[o] = sessions[o] /\ sessionData'[o] = sessionData[o]]_vars

\* C28 witness: tenant 2, whose row was DISCONNECTED, is CONNECTED with the
\* phone number, profile name and connect time of an open event, and tenant
\* 1, which was CONNECTED, is CONNECTING and holds the QR code of a later QR
\* event.
C28_Witness ==
    /\ sessions[2].status = "CONNECTED"
    /\ sessionData[2] = ConnectedData(KnownUser)
    /\ sessions[1].status = "CONNECTING"
    /\ sessionData[1].phoneNumber = "null"
    /\ sessionData[1].qrCode = "qr2"
    /\ calls = 0

\* The received messages the event filter is to drop: key and body both
\* missing, sent by the session itself, from a group, or no text left after
\* trimming.
ToBeDropped(d) ==
    \/ ~d.key.present /\ ~d.message.present
    \/ d.key.present /\ d.key.fromMe
    \/ d.key.present /\ d.key.group
    \/ Trim(MessageTextOf(d)) = <<>>

\* C29: a messages.upsert delivery for a tenant with a session row whose
\* payload has neither key nor body, is sent by the session itself, comes
\* from a group or has no text after trimming ends at the filter: from its
\* arrival to its end no received_messages row is stored, handleMessage is
\* not entered, and appointments, queue, message log and broker calls stay
\* as they were.
C29_DroppedMessage ==
    [][\A p \in Handlers :
         LET f == IF pc[p] = "idle" THEN frame'[p] ELSE frame[p] IN
         (/\ pc[p] \in {"idle", "w_find"}
          /\ pc'[p] # pc[p]
          /\ f.event = "messages.upsert"
          /\ f.data.present
          /\ sessions[f.tenantId].status # "NONE"
          /\ ToBeDropped(f.data))
         => /\ pc'[p] = IF pc[p] = "idle" THEN "w_find" ELSE "idle"
            /\ UNCHANGED <<received, sts, whatsConf, queue, messages, brokerSends,
                           sessions, sessionData>>]_vars

\* C29 witness: a message of a group whose text is the reply 1 was delivered
\* to tenant 1 and the delivery has ended with nothing stored.
C29_Witness ==
    /\ pc["m1"] = "idle"
    /\ frame["m1"].event = "messages.upsert"
    /\ frame["m1"].tenantId = 1
    /\ frame["m1"].data.key.group
    /\ ~frame["m1"].data.key.fromMe
    /\ frame["m1"].data.message.conversation = <<"1">>
    /\ received = <<>>
    /\ calls = 1

LastEight(tel) == Slice8(StripNonDigits(tel))

\* C32: an inbound number matches a patient exactly when the last 8 digits of
\* the normalized inbound number are the last 8 digits of the patient's
\* first or second phone with the non-digits stripped.
C32_MatchIsLastEight ==
    calls = 1 =>
        (cout <=> \/ LastEight(cin.tel1) = Slice8(CleanNumber(cin.number))
                  \/ LastEight(cin.tel2) = Slice8(CleanNumber(cin.number)))

\* The appointments of a tenant that are not at 6 or 7, are dated yesterday
\* or later and whose patient's phone matches the number.
Pending(ownerId, phoneNumber) ==
    {a \in ScheduleIds :
        /\ Schedules[a].owner = ownerId
        /\ sts[a] \notin Terminal
        /\ Schedules[a].dates >= -1
        /\ PhoneMatches(phoneNumber, Schedules[a].patient)}

\* C31: the lookup of handleMessage yields an appointment of the tenant that
\* is not at 6 or 7, is dated yesterday or later and matches the sender's
\* phone, and none of these is earlier by date and then time; it yields none,
\* and the reply is ignored, when there is no such appointment.
C31_EarliestPending ==
    [][\A p \in Handlers :
         HandlerFind(p) =>
            LET f == frame[p]
                c == Pending(f.ownerId, f.senderNumber)
                a == frame'[p].schedule
            IN  IF c = {}
                THEN pc'[p] = "idle" /\ result'[p].action = "ignored"
                ELSE /\ pc'[p] = "h_log"
                     /\ a \in c
                     /\ Schedules[a].owner = f.ownerId
                     /\ \A b \in c :
                           \/ Schedules[a].dates < Schedules[b].dates
                           \/ /\ Schedules[a].dates = Schedules[b].dates
                              /\ Schedules[a].times <= Schedules[b].times]_vars

\* C31 witness: tenant 1's sender has appointment 1 made terminal, the stale
\* appointment 5 and appointment 2 pending, and the lookup has yielded 2.
C31_Witness ==
    /\ pc["m1"] = "h_log"
    /\ frame["m1"].ownerId = 1
    /\ frame["m1"].schedule = 2
    /\ sts[1] \in Terminal
    /\ sts[5] = 0
    /\ Schedules[5].dates < Schedules[2].dates

\* C38: with replies handled one after the other, a 1 or 2 reply is not
\* ignored while the sender has a pending appointment, and the status it
\* writes goes to the earliest appointment of the sender that is still
\* pending and to no other: once a reply has made appointment 1 terminal,
\* the sender's next reply is written to appointment 2.
C38_NextPendingApplied ==
    [][\A p \in Handlers :
         LET f == frame[p]
             c == Pending(f.ownerId, f.senderNumber)
             a == f.schedule
         IN  /\ (HandlerFind(p) /\ c # {}) => pc'[p] = "h_log"
             /\ PcaUpdateStatus(p) =>
                   /\ a \in c
                   /\ \A b \in c \ {a} :
                         \/ Schedules[a].dates < Schedules[b].dates
                         \/ /\ Schedules[a].dates = Schedules[b].dates
                            /\ Schedules[a].times < Schedules[b].times
                   /\ sts'[a] = f.statusToSet
                   /\ sts'[a] \in Terminal
                   /\ \A b \in ScheduleIds \ {a} : sts'[b] = sts[b]]_vars

\* C38 witness: the sender's first reply confirmed appointment 1 and the
\* second reply, a 2, has just been written to appointment 2.
C38_Witness ==
    /\ sts[1] = 6
    /\ sts[2] = 7
    /\ sts[5] = 0
    /\ pc["m1"] = "pca_template"
    /\ frame["m1"].schedule = 2
    /\ frame["m1"].senderNumber = Str13
    /\ calls = 2

\* C33: no step of a getSessionStatus call changes a session's status, API
\* key or row count; the only column it writes is the token of the tenant's
\* row, from none to the token the broker's instance data held; and the call
\* that is answered from the row and the broker returns the status it read
\* from the row, with connected set exactly when that is CONNECTED, whether
\* the broker reported open or nothing.
C33_StatusReadOnly ==
    [][\A p \in StatusReaders :
         ((\E t \in Tenants : getSessionStatus(p, t)) \/ GsStep(p)) =>
            LET t == frame[p].tenantId IN
            /\ sessions' = sessions
            /\ sessionRows' = sessionRows
            /\ \A o \in Tenants :
                  \/ sessionData'[o] = sessionData[o]
                  \/ /\ o = t
                     /\ pc[p] = "g_token"
                     /\ sessionData[o].sessionToken = "null"
                     /\ sessionData'[o].sessionToken \in Tokens
                     /\ sessionData'[o] =
                           [sessionData[o] EXCEPT
                               !.sessionToken = sessionData'[o].sessionToken]
            /\ (pc[p] \in {"g_info", "g_token"} /\ pc'[p] = "idle"
                   /\ result'[p].status # "ERROR") =>
                  /\ result'[p].status = frame[p].status
                  /\ result'[p].connected <=> frame[p].status = "CONNECTED"]_vars

\* C33 witness: the broker reported open for tenant 1 while its row was
\* CONNECTING without token; the call answered CONNECTING, not connected,
\* and the row holds the broker's token and is still CONNECTING.
C33_Witness ==
    /\ pc["gs"] = "idle"
    /\ frame["gs"].tenantId = 1
    /\ result["gs"].evolutionStatus = "open"
    /\ result["gs"].status = "CONNECTING"
    /\ ~result["gs"].connected
    /\ sessions[1].status = "CONNECTING"
    /\ sessionData[1].sessionToken \in Tokens

\* C40: a disconnectSession call whose broker logout failed ends there as
\* failed, with status, phone number, profile name, QR code, token and
\* connect time of every row as they were; a step of a disconnectSession
\* call changes a row only after the logout of that call has succeeded.
C40_FailedLogoutKeepsSession ==
    [][\A p \in Disconnectors :
         DisconnectStep(p) =>
            /\ (pc[p] = "d_logout" /\ BrokerFailed(frame'[p].ops)) =>
                  /\ pc'[p] = "idle"
                  /\ ~result'[p].success
                  /\ UNCHANGED <<sessions, sessionData, sessionRows>>
            /\ (sessions' # sessions \/ sessionData' # sessionData) =>
                  /\ frame[p].ops = <<Op("disconnectSession", TRUE)>>
                  /\ sessions'[frame[p].tenantId].status = "DISCONNECTED"]_vars

\* C40 witness: the logout of tenant 1's disconnect has failed, the call has
\* failed, and tenant 1 is still CONNECTED with the phone number, profile
\* name and connect time it had.
C40_Witness ==
    /\ pc["dc"] = "idle"
    /\ frame["dc"].tenantId = 1
    /\ frame["dc"].ops = <<Op("disconnectSession", FALSE)>>
    /\ ~result["dc"].success
    /\ sessions[1].status = "CONNECTED"
    /\ sessionData[1] = ConnectedData(KnownUser)
    /\ calls = 1

\* The trimmed text is all digits and neither 1 nor 2.
OtherDigits(text) ==
    /\ Trim(text) # <<>>
    /\ ~HasNonDigit(Trim(text))
    /\ Trim(text) \notin {<<"1">>, <<"2">>}

\* C39: a handleMessage call whose trimmed text is all digits and neither 1
\* nor 2 goes to the send of the clarification without an appointment lookup,
\* whether or not the sender has a pending appointment, and returns action
\* fallback; it returns success false exactly when the tenant's session is
\* not CONNECTED or its broker send failed, and then no send has gone
\* through.
C39_FallbackWithoutLookup ==
    [][\A p \in Handlers :
         LET f == Running(p) IN
         /\ (Steps(p) /\ pc'[p] # "idle") =>
               (f.action = "fallback" <=> OtherDigits(f.messageText))
         /\ (Steps(p) /\ f.action = "fallback") =>
            /\ pc'[p] \in {"send_find", "send_call", "idle"}
            /\ UNCHANGED <<sts, queue, messages>>
            /\ pc'[p] = "idle" =>
                 /\ result'[p].action = "fallback"
                 /\ ~result'[p].success <=>
                       \/ sessions[f.ownerId].status # "CONNECTED"
                       \/ CountIn(brokerSends', IsFailedSend) > f.fails0
                 /\ ~result'[p].success =>
                       OkSends(brokerSends') = f.sends0 - f.fails0
                 /\ result'[p].success =>
                       OkSends(brokerSends') = f.sends0 - f.fails0 + 1]_vars

\* C39 witness: tenant 1 got a 9 from a sender none of whose appointments it
\* owns, and the clarification was sent.
C39_Witness ==
    /\ pc["m1"] = "idle"
    /\ frame["m1"].action = "fallback"
    /\ frame["m1"].ownerId = 1
    /\ frame["m1"].senderNumber = Str12
    /\ \A a \in ScheduleIds :
          Schedules[a].owner = 1 => ~PhoneMatches(Str12, Schedules[a].patient)
    /\ result["m1"] = Response(TRUE, "fallback", "undefined", "undefined")
    /\ \E m \in BagToSet(brokerSends) : m.ok /\ m.text.kind = "fallback" /\ m.tenant = 1

\* C35: the upsert of a connectTenant call leaves the tenant's row
\* CONNECTING whatever its status was, and a call that returns reports
\* CONNECTING; a row becomes CONNECTED only by an open connection event; and
\* while the row is not CONNECTED the session check of sendMessage fails
\* without a broker request and the session check of processQueueItem sends
\* the item to its error path.
C35_ConnectDemotes ==
    [][/\ \A p \in Connectors :
            /\ ConnectUpsert(p) => sessions'[frame[p].tenantId].status = "CONNECTING"
            /\ (ConnectStep(p) /\ pc'[p] = "idle" /\ connection'.ok) =>
                  connection'.status = "CONNECTING"
       /\ \A t \in Tenants :
            (sessions[t].status # "CONNECTED" /\ sessions'[t].status = "CONNECTED") =>
               handleEvolutionConnectionUpdate(t, "open", KnownUser)
       /\ \A p \in Handlers :
            /\ (SendMessageFind(p) /\ sessions[SendTenant(frame[p])].status # "CONNECTED") =>
                  /\ pc'[p] # "send_call"
                  /\ brokerSends' = brokerSends
                  /\ frame[p].caller = "fallback" =>
                        pc'[p] = "idle" /\ ~result'[p].success
                  /\ frame[p].caller # "fallback" => pc'[p] = "pqi_serr_upd"
            /\ (PqiValidate(p) /\ sessions[queue[frame[p].item].owner_id].status # "CONNECTED") =>
                  pc'[p] = "pqi_verr_upd"
            /\ (pc[p] \in {"pqi_verr_upd", "pqi_serr_upd"} /\ pc'[p] # pc[p]) =>
                  queue'[frame[p].item].status = "Erro"]_vars

\* C35 witness: tenant 1 was CONNECTED; a connectTenant call for it has
\* returned and its row is CONNECTING; the reply 1 that came after it was
\* written to the appointment, but its queue item ended as Erro with no
\* broker send made.
C35_Witness ==
    /\ pc["cn"] = "idle"
    /\ connection.ok
    /\ connection.status = "CONNECTING"
    /\ sessions[1].status = "CONNECTING"
    /\ sts[1] = 6
    /\ Len(queue) = 1
    /\ queue[1].status = "Erro"
    /\ brokerSends = EmptyBag
    /\ pc["m1"] = "idle"

\* A run that holds the flag: a scheduled run or a processOnce run.
Flagged(p) == pc[p] # "idle" /\ frame[p].kind \in {"scheduled", "once"}

\* C37: the flag is set exactly while a scheduled or processOnce run is in
\* flight, so it is released when such a run ends, whether it returned or
\* threw; and a timer tick that fires while none is in flight starts a run
\* that selects from the queue, whatever the earlier runs did.
C37_FlagReleased ==
    /\ [](isProcessing <=> \E p \in Batchers : Flagged(p))
    /\ [][\A p \in Batchers :
            (Flagged(p) /\ Returns(p)) => ~isProcessing']_vars
    /\ [][\A p \in Timers :
            (Tick(p) /\ ~\E q \in Batchers : Flagged(q)) =>
                /\ pc'[p] = "b_select"
                /\ isProcessing']_vars

\* C37 witness: a processOnce run threw, and the tick after it is working
\* on an appointment it selected.
C37_Witness ==
    /\ pc["man"] = "idle"
    /\ frame["man"].kind = "once"
    /\ pc["t1"] = "pqi_select"
    /\ isProcessing

\* The broker requests made for queue row i that the broker accepted.
SendsOf(i) == CountIn(brokerSends, LAMBDA m : m.item = i /\ m.ok)

\* C34: whatever the interleaving of the processQueueItem calls of direct
\* triggers and batch runs, the broker accepts at most one message for each
\* queue row.
C34_SentAtMostOnce ==
    \A i \in 1..Len(queue) : SendsOf(i) <= 1

====
